---- MODULE Spec2Model ----
(***************************************************************************)
(* A model of the site builder: the Asset build graph                      *)
(* (builder/src/util/asset.rs), the part of the site graph assembled from  *)
(* it (main.rs, blog.rs, templater.rs, raw.rs), the watch loop of main()   *)
(* and the development server (server.rs).                                 *)
(*                                                                         *)
(* Time is a discrete clock `now`; every timestamp the program reads       *)
(* (file mtimes, SystemTime::now()) is a value of that clock.  Two events  *)
(* in the same tick carry equal timestamps, as two events within one       *)
(* timestamp granule of the filesystem do.                                 *)
(***************************************************************************)
EXTENDS Integers, Sequences, FiniteSets, TLC

\* Bounds of the model.
MaxTime == 3
MaxChanges == 2
MaxEvents == 5
MaxPathLen == 3
MaxBroadcast == 3
MaxQueue == 2

VARIABLES
    now,        \* the clock
    fs,         \* path -> [mt, data]: mtime (Never when absent) and content
    cells,      \* Cache id -> the Cell<Option<(Modified, Output)>> of that node
    ran,        \* ghost: the work executed by the most recent generate()
    dirty,      \* ghost: what changed since the most recent generate() returned
    startDirty, \* ghost: `dirty` as the most recent generate() found it
    gens,       \* ghost: generate() calls so far, saturating at 2
    changes,    \* ghost: external changes so far (also the content version)
    faulty,     \* the paths whose reads, listings or writes fail at present
    started     \* the time at which the process started

graphVars == <<now, fs, cells, ran, dirty, startDirty, gens, changes, faulty, started>>

VARIABLES
    mpc,        \* where main() is: "recv", "debounce", "running", "exited"
    chan,       \* the bounded(1) channel of anyhow::Result<()>
    expired,    \* whether the debounce deadline has passed
    srv,        \* the server thread: "none", "listening", "failed", "sent"
    clients     \* the /watch streams of the server, by client

loopVars == <<mpc, chan, expired, srv>>

VARIABLES
    burst,      \* ghost: non-access events delivered to the watcher callback
    passed,     \* ghost: the deadline set by the first signal has passed
    late,       \* ghost: an event was delivered after that deadline
    g,          \* ghost: generate() calls started by the loop, saturating at 3
    pending,    \* ghost: an event was delivered and no generate() started since
    dropped     \* ghost: a signal was dropped on a full channel

watchGhost == <<burst, passed, late, g, pending, dropped>>

VARIABLES
    req,        \* the HTTP request the server is answering
    resp,       \* its response: status, body, and the paths fs_path returned
    page404     \* whether 404.html of the output root can be read

httpVars == <<req, resp, page404>>

VARIABLES
    mini,       \* a call of minify::html, css or js, and its child process
    tmpl        \* a Template being parsed and applied

libVars == <<mini, tmpl>>

VARIABLES
    seen,       \* ghost: by client, which events were broadcast to its stream
    evq,        \* the filesystem events the watcher has not delivered yet
    wr,         \* the output file generate() is writing, << >> when none
    wrote       \* the output files the running generate() has written

fsVars == <<evq, wr, wrote>>

vars == <<graphVars, loopVars, clients, watchGhost, httpVars, libVars, seen, fsVars>>

----------------------------------------------------------------------------
(* Modified: Never < At(t).  Never is 0, At(t) is t >= 1.                  *)

Never == 0

Max(a, b) == IF a >= b THEN a ELSE b

Unit == "unit"
Ok(v) == [ok |-> TRUE, v |-> v]
Err(e) == [ok |-> FALSE, v |-> e]

None == [some |-> FALSE, at |-> Never, out |-> Unit]
Some(m, out) == [some |-> TRUE, at |-> m, out |-> out]

\* Modified::path(p).unwrap_or(Modified::Never)
Modified_path(files, p) == files[p].mt

\* The executable's mtime: fixed, older than the process.
EXE_MODIFIED == 1

----------------------------------------------------------------------------
(* The files of the project.                                               *)

Posts == {"a", "b"}
RawFiles == {"r"}
Includes == {"inc"}

PostTemplate == "template/blog/post.hbs"
IncludeDir == "template/include"
SrcDir == "src/blog"
RawDir == "raw"
PackageJson == "./builder/js/package.json"
IconSrc == "src/icon.png"
AppleTouchIcon == "dist/apple-touch-icon.png"
Favicon == "dist/favicon.ico"
PackageLock == "./builder/js/package-lock.json"

PostSrc(p) == "src/blog/" \o p \o ".md"
PostOut(p) == "dist/blog/" \o p \o ".html"
RawSrc(r) == "raw/" \o r
RawOut(r) == "dist/" \o r
IncludeSrc(i) == "template/include/" \o i \o ".hbs"

SourceFiles == {PostTemplate} \cup {PostSrc(p) : p \in Posts}
                 \cup {RawSrc(r) : r \in RawFiles} \cup {IncludeSrc(i) : i \in Includes}
Dirs == {IncludeDir, SrcDir, RawDir}
Outputs == {PostOut(p) : p \in Posts} \cup {RawOut(r) : r \in RawFiles}
Paths == SourceFiles \cup Dirs \cup Outputs

\* A source file's content: a version number, and whether a post is a draft.
NoData == [ver |-> 0, draft |-> FALSE]
Absent == [mt |-> Never, data |-> NoData]
Exists(files, p) == files[p].mt # Never

\* A fixed enumeration order of a set of names (read_dir yields some order).
RECURSIVE SeqOf(_)
SeqOf(S) == IF S = {} THEN << >>
            ELSE LET x == CHOOSE y \in S : TRUE IN <<x>> \o SeqOf(S \ {x})

\* The entries fs::read_dir / WalkDir find.
ListPosts(files) == SeqOf({p \in Posts : Exists(files, PostSrc(p))})
ListIncludes(files) == SeqOf({i \in Includes : Exists(files, IncludeSrc(i))})
ListRaw(files) == SeqOf({r \in RawFiles : Exists(files, RawSrc(r))})

\* The Ok elements of a sequence of results, in order.
RECURSIVE OkOnly(_)
OkOnly(s) == IF s = << >> THEN << >>
             ELSE (IF Head(s).ok THEN <<Head(s)>> ELSE << >>) \o OkOnly(Tail(s))

----------------------------------------------------------------------------
(* Asset nodes (util/asset.rs).                                            *)

TextFile(p) == [k |-> "TextFile", path |-> p]
FsPath(p) == [k |-> "FsPath", path |-> p]
Dir(p) == [k |-> "Dir", path |-> p]
Constant(v) == [k |-> "Constant", value |-> v]
\* A Dynamic without a stamp of its own.  For comparison with the one of
\* the code below.
Dynamic_unstamped(v, t) == [k |-> "Dynamic", value |-> v, created |-> Never]

\* Dynamic::new(value): created is SystemTime::now().
Dynamic(v, t) == [k |-> "Dynamic", value |-> v, created |-> t]
Volatile == [k |-> "Volatile"]
Map(a, f) == [k |-> "Map", asset |-> a, f |-> f]
Flatten(a) == [k |-> "Flatten", asset |-> a]
Cache(id, a) == [k |-> "Cache", asset |-> a, id |-> id]
ModifiesPath(a, p) == [k |-> "ModifiesPath", asset |-> a, path |-> p]
All(as) == [k |-> "All", assets |-> as]

\* A closure given to map(): its name and what it captured.
Fn(name, arg) == [fn |-> name, arg |-> arg]

\* The state a call works on: the files, the cache cells, the work done.
Note(st, what) == [st EXCEPT !.ran = @ \cup {what}]

\* A read, listing or write of path p succeeds.
Readable(files, p) == Exists(files, p) /\ p \notin faulty

\* A write that leaves the file with the executable's time instead of the
\* time of the write.  For comparison with the one of the code below.
write_file_unstamped(st, path, data) ==
    Note([st EXCEPT !.fs[path] = [mt |-> EXE_MODIFIED, data |-> data]], <<"write", path>>)

\* util::write_file: parent directories are created, then fs::write; when
\* that fails the file is left as it was and the error is returned.
write_file(st, path, data) ==
    IF path \in faulty THEN Note(st, <<"failed", path>>)
    ELSE Note([st EXCEPT !.fs[path] = [mt |-> now, data |-> data]], <<"write", path>>)

----------------------------------------------------------------------------
(* The site graph.  config is Dynamic::new(&config) of main(): stamped     *)
(* with the time the process started.                                      *)

Config == [drafts |-> FALSE, minify |-> FALSE, icons |-> TRUE, live_reload |-> FALSE]

PostId(p) == <<"post", p>>
IncludeId(i) == <<"include", i>>
CacheIds == {<<"post_template", "">>, <<"html", "">>, <<"templater_dir", "">>,
             <<"templater", "">>, <<"raw", "">>}
              \cup {PostId(p) : p \in Posts} \cup {IncludeId(i) : i \in Includes}

\* blog.rs: post_template, shared by every post page.
post_template ==
    Cache(<<"post_template", "">>, Map(TextFile(PostTemplate), Fn("compile", "")))

\* templater.rs: the templater, rebuilt from the include directory.
templater_asset(config) ==
    Flatten(Cache(<<"templater_dir", "">>,
        Map(Map(Dir(IncludeDir), Fn("templater_build", config)), Fn("or_fallback", ""))))

\* templater.rs: one include of the templater.
include_asset(i) ==
    Cache(IncludeId(i),
        Map(Map(TextFile(IncludeSrc(i)), Fn("compile", i)), Fn("log_err", "")))

\* blog.rs: the page of one post.
post_page(p, config) ==
    LET post == Cache(PostId(p), Map(TextFile(PostSrc(p)), Fn("read_post", p)))
        shown == Map(All(<<config, post>>), Fn("skip_draft", ""))
    IN ModifiesPath(
           Map(Map(All(<<shown, templater_asset(config), post_template>>),
                   Fn("post_page", PostOut(p))),
               Fn("log_errors", "")),
           PostOut(p))

\* blog.rs: the html sub-graph, rebuilt from the posts directory.
blog_asset(config) ==
    Flatten(Cache(<<"html", "">>,
        Map(Map(Dir(SrcDir), Fn("blog_build", config)), Fn("or_constant", ""))))

\* raw.rs: one copied file.
raw_copy(r) ==
    ModifiesPath(
        Map(Map(FsPath(RawSrc(r)), Fn("copy", r)), Fn("log_errors", "")),
        RawOut(r))

\* raw.rs: the raw sub-graph, rebuilt from a walk of the raw directory.
raw_asset ==
    Flatten(Cache(<<"raw", "">>,
        Map(Map(Volatile, Fn("raw_walk", "")), Fn("or_constant", ""))))

\* util/minify.rs: npm install, when package.json is newer than the lock.
minify_asset ==
    ModifiesPath(
        Map(Map(FsPath(PackageJson), Fn("npm_install", "")), Fn("log_errors", "")),
        PackageLock)

\* icons.rs: real_asset; the closure saves the apple touch icon and then
\* encodes the favicon, which takes `elapsed` ticks of the clock.
real_asset(elapsed) ==
    ModifiesPath(
        ModifiesPath(
            Map(Map(FsPath(IconSrc), Fn("encode", elapsed)), Fn("log_errors", "")),
            AppleTouchIcon),
        Favicon)

\* icons.rs: asset
icons_asset(config, elapsed) == Flatten(Map(config, Fn("icons", elapsed)))

\* main.rs: the first child of the root, which sets minification up when
\* the config asks for it.
setup_asset(config) == Flatten(Map(config, Fn("minify_setup", "")))

\* main.rs: the root of the graph.
asset(config) ==
    Map(All(<<setup_asset(config), blog_asset(config), raw_asset>>), Fn("unit", ""))

\* templater.rs: the templater without includes.
FALLBACK_TEMPLATER ==
    [includes |-> << >>, icons |-> FALSE, live_reload |-> FALSE, minify |-> FALSE]

\* Cache::new: a freshly built node starts with an empty cell.
Fresh(st, ids) == [st EXCEPT !.cells = [c \in CacheIds |-> IF c \in ids THEN None ELSE @[c]]]

\* The closures of the graph, applied to the output x of the mapped asset.
Apply(f, x, st) ==
    CASE f.fn = "unit" -> [st |-> st, out |-> Unit]
      [] f.fn = "log_errors" -> [st |-> st, out |-> Unit]
      [] f.fn = "log_err" -> [st |-> st, out |-> x]
      [] f.fn = "compile" ->
            [st |-> st, out |-> IF x.ok THEN Ok([name |-> f.arg, compiled |-> x.v]) ELSE x]
      [] f.fn = "read_post" ->
            [st |-> st, out |-> [stem |-> f.arg, content |-> x]]
      [] f.fn = "skip_draft" ->
            LET drafts == x[1].drafts
                post == x[2]
                is_draft == post.content.ok /\ post.content.v.draft
            IN [st |-> st,
                out |-> IF drafts \/ ~is_draft THEN Some(Never, post) ELSE None]
      [] f.fn = "post_page" ->
            IF x[1].some
            THEN [st |-> write_file(st, f.arg,
                            [post |-> x[1].out.content, templater |-> x[2],
                             template |-> x[3]]),
                  out |-> IF f.arg \in faulty THEN Err(f.arg) ELSE Ok(Unit)]
            ELSE [st |-> st, out |-> Ok(Unit)]
      [] f.fn = "blog_build" ->
            IF ~x.ok THEN [st |-> st, out |-> x]
            ELSE [st |-> Fresh(st, {PostId(p) : p \in Posts}),
                  out |-> Ok(Map(All(<<All([i \in 1..Len(x.v) |->
                                              post_page(x.v[i], f.arg)])>>),
                                 Fn("unit", "")))]
      [] f.fn = "or_constant" ->
            [st |-> st, out |-> IF x.ok THEN x.v ELSE Constant(Unit)]
      [] f.fn = "minify_setup" ->
            [st |-> Note(st, <<"setup", st.ran = {}>>),
             out |-> IF x.minify THEN minify_asset ELSE Constant(Unit)]
      [] f.fn = "icons" ->
            [st |-> st, out |-> IF x.icons THEN real_asset(f.arg) ELSE Constant(Unit)]
      [] f.fn = "encode" ->
            IF ~Readable(st.fs, IconSrc) THEN [st |-> st, out |-> Err(IconSrc)]
            ELSE IF AppleTouchIcon \in faulty
            THEN [st |-> Note(st, <<"failed", AppleTouchIcon>>), out |-> Err(AppleTouchIcon)]
            ELSE LET saved == write_file(st, AppleTouchIcon, st.fs[IconSrc].data)
                 IN IF Favicon \in faulty
                    THEN [st |-> Note(saved, <<"failed", Favicon>>), out |-> Err(Favicon)]
                    ELSE [st |-> Note([saved EXCEPT !.fs[Favicon] =
                                          [mt |-> now + f.arg, data |-> st.fs[IconSrc].data]],
                                      <<"write", Favicon>>),
                          out |-> Ok(Unit)]
      [] f.fn = "npm_install" ->
            [st |-> Note(st, <<"npm", PackageJson>>), out |-> Ok(Unit)]
      [] f.fn = "templater_build" ->
            IF ~x.ok THEN [st |-> st, out |-> x]
            ELSE [st |-> Fresh(st, {<<"templater", "">>}
                                     \cup {IncludeId(i) : i \in Includes}),
                  out |-> Ok(Cache(<<"templater", "">>,
                             Map(All(<<f.arg,
                                       All([i \in 1..Len(x.v) |-> include_asset(x.v[i])])>>),
                                 Fn("make_templater", ""))))]
      [] f.fn = "or_fallback" ->
            [st |-> st, out |-> IF x.ok THEN x.v ELSE Constant(FALLBACK_TEMPLATER)]
      [] f.fn = "make_templater" ->
            [st |-> st,
             out |-> [includes |-> OkOnly(x[2]),
                      icons |-> x[1].icons, live_reload |-> x[1].live_reload,
                      minify |-> x[1].minify]]
      [] f.fn = "raw_walk" ->
            IF ~Readable(st.fs, RawDir) THEN [st |-> st, out |-> Err(RawDir)]
            ELSE LET found == ListRaw(st.fs)
                 IN [st |-> Note(st, <<"list", RawDir>>),
                     out |-> Ok(Map(All([i \in 1..Len(found) |-> raw_copy(found[i])]),
                                    Fn("unit", "")))]
      [] f.fn = "copy" ->
            IF Readable(st.fs, RawSrc(f.arg))
            THEN [st |-> write_file(st, RawOut(f.arg), st.fs[RawSrc(f.arg)].data),
                  out |-> IF RawOut(f.arg) \in faulty THEN Err(RawOut(f.arg)) ELSE Ok(Unit)]
            ELSE [st |-> st, out |-> Err(RawSrc(f.arg))]

----------------------------------------------------------------------------
(* Asset::modified and Asset::generate of every node kind.  Both return    *)
(* the state they leave: Flatten::modified generates its outer asset, and  *)
(* a generate() fills cache cells and writes files.                        *)

\* Other decision rules, for comparison with the two of the code below.
\* A write node that never skips.
ModifiesPath_always(inner_modified, output_modified) == TRUE

\* A write node that skips on equal timestamps.
ModifiesPath_strict(inner_modified, output_modified) ==
    inner_modified > output_modified \/ EXE_MODIFIED > output_modified

\* A cache that drops its value on equal timestamps.
Cache_strict(cell, inner_modified) ==
    cell.some /\ cell.at > inner_modified

\* A cache that never drops its value.
Cache_forever(cell, inner_modified) == cell.some

\* ModifiesPath::generate: whether the inner asset is generated.
ModifiesPath_stale(inner_modified, output_modified) ==
    inner_modified >= output_modified \/ EXE_MODIFIED >= output_modified

\* Cache::generate: whether the stored pair survives the filter.
Cache_fresh(cell, inner_modified) ==
    cell.some /\ cell.at >= inner_modified

\* One call returns before the next starts: r is computed, then e.
Then(r, e) == IF "st" \in DOMAIN r THEN e ELSE e

RECURSIVE modified(_, _), generate(_, _), All_modified(_, _, _, _), All_generate(_, _, _, _)

\* A Flatten whose query builds the inner graph before it asks for its
\* time.  For comparison with the one of the code below.
Flatten_modified_built(a, st) ==
    LET outer == modified(a.asset, st)
        inner == Then(outer, generate(a.asset, outer.st))
        built == Then(inner, generate(inner.out, inner.st))
        m == Then(built, modified(inner.out, built.st))
    IN Then(m, [st |-> m.st, m |-> Max(outer.m, m.m)])

\* Flatten::modified: the later of the outer asset's time and the time of
\* the asset it generates.
Flatten_modified(a, st) ==
    LET outer == modified(a.asset, st)
        inner == Then(outer, generate(a.asset, outer.st))
        m == Then(inner, modified(inner.out, inner.st))
    IN Then(m, [st |-> m.st, m |-> Max(outer.m, m.m)])

\* ghost: modified() of the child of node `label` has returned, at this
\* point of the call's record.
Queried(st, label) == Note(st, <<"asked", label, Cardinality(st.ran)>>)

\* ghost: generate() of the child of node `label` is being called.
Invoked(st, label) == Note(st, <<"called", label, Cardinality(st.ran)>>)

\* A Cache that generates its child first and asks for its time after.
\* For comparison with the one of the code below.
Cache_generate_eager(a, st) ==
    LET r == generate(a.asset,
                      Invoked(Note(Note(st, <<"gen", a.id[1] \o a.id[2]>>),
                                   <<"miss", a.id[1] \o a.id[2]>>), a.id[1] \o a.id[2]))
        inner_modified == Then(r, modified(a.asset, r.st))
        asked == Queried(inner_modified.st, a.id[1] \o a.id[2])
    IN Then(inner_modified,
            [st |-> [asked EXCEPT !.cells[a.id] = Some(inner_modified.m, r.out)],
             out |-> r.out])

\* Cache::generate
Cache_generate(a, st) ==
    LET inner_modified == modified(a.asset, Note(st, <<"gen", a.id[1] \o a.id[2]>>))
        asked == Queried(inner_modified.st, a.id[1] \o a.id[2])
        cell == asked.cells[a.id]
        r == generate(a.asset,
                      Invoked(Note(asked, <<"miss", a.id[1] \o a.id[2]>>),
                              a.id[1] \o a.id[2]))
    IN Then(inner_modified,
         IF Cache_fresh(cell, inner_modified.m)
         THEN [st |-> asked, out |-> cell.out]
         ELSE Then(r,
                [st |-> [r.st EXCEPT !.cells[a.id] = Some(inner_modified.m, r.out)],
                 out |-> r.out]))

modified(a, st) ==
    CASE a.k = "Map" -> modified(a.asset, st)
      [] a.k = "Cache" -> modified(a.asset, st)
      [] a.k = "Flatten" -> Flatten_modified(a, st)
      [] a.k = "ModifiesPath" -> [st |-> st, m |-> Modified_path(st.fs, a.path)]
      [] a.k = "All" -> All_modified(a.assets, 1, st, Never)
      [] a.k = "Constant" -> [st |-> st, m |-> Never]
      [] a.k = "Dynamic" -> [st |-> st, m |-> a.created]
      [] a.k = "Volatile" -> [st |-> st, m |-> now]
      [] a.k \in {"FsPath", "TextFile", "Dir"} ->
            [st |-> st, m |-> Modified_path(st.fs, a.path)]

All_modified(as, i, st, latest) ==
    IF i > Len(as) THEN [st |-> st, m |-> latest]
    ELSE LET r == modified(as[i], st)
         IN Then(r, All_modified(as, i + 1, r.st, Max(latest, r.m)))

generate(a, st) ==
    CASE a.k = "Map" ->
            LET r == generate(a.asset, st) IN Then(r, Apply(a.f, r.out, r.st))
      [] a.k = "Flatten" ->
            LET outer == generate(a.asset, st)
            IN Then(outer, generate(outer.out, outer.st))
      [] a.k = "Cache" -> Cache_generate(a, st)
      [] a.k = "ModifiesPath" ->
            LET output_modified == Modified_path(st.fs, a.path)
                inner_modified == modified(a.asset, Note(st, <<"node", a.path>>))
                compared == Note(Queried(inner_modified.st, a.path),
                                 <<"compared", a.path, inner_modified.m, output_modified>>)
                r == generate(a.asset, Invoked(Note(compared, <<"inner", a.path>>), a.path))
            IN Then(inner_modified,
                 IF ModifiesPath_stale(inner_modified.m, output_modified)
                 THEN Then(r, [st |-> r.st, out |-> Unit])
                 ELSE [st |-> compared, out |-> Unit])
      [] a.k = "All" -> All_generate(a.assets, 1, st, << >>)
      [] a.k = "Constant" -> [st |-> st, out |-> a.value]
      [] a.k = "Dynamic" -> [st |-> st, out |-> a.value]
      [] a.k \in {"Volatile", "FsPath"} -> [st |-> st, out |-> Unit]
      [] a.k = "TextFile" ->
            [st |-> Note(st, <<"read", a.path>>),
             out |-> IF Readable(st.fs, a.path) THEN Ok(st.fs[a.path].data) ELSE Err(a.path)]
      [] a.k = "Dir" ->
            [st |-> Note(st, <<"list", a.path>>),
             out |-> IF ~Readable(st.fs, a.path) THEN Err(a.path)
                     ELSE IF a.path = SrcDir THEN Ok(ListPosts(st.fs))
                     ELSE Ok(ListIncludes(st.fs))]

\* An All that gives up once a failure was logged: the remaining children
\* are not generated.  For comparison with the one of the code below.
All_generate_abort(as, i, st, outs) ==
    IF i > Len(as) THEN [st |-> st, out |-> outs]
    ELSE IF \E w \in st.ran : w[1] = "failed"
    THEN All_generate(as, i + 1, st, Append(outs, Unit))
    ELSE LET r == generate(as[i], st)
         IN Then(r, All_generate(as, i + 1, r.st, Append(outs, r.out)))

\* An All that generates its children from the last to the first, the
\* outputs kept in their positions.  For comparison with the one of the
\* code below.
All_generate_reversed(as, i, st, outs) ==
    IF i > Len(as) THEN [st |-> st, out |-> outs]
    ELSE LET r == generate(as[Len(as) + 1 - i], st)
         IN Then(r, All_generate(as, i + 1, r.st, <<r.out>> \o outs))

\* All::generate: every child is generated, in order.
All_generate(as, i, st, outs) ==
    IF i > Len(as) THEN [st |-> st, out |-> outs]
    ELSE LET r == generate(as[i], st)
         IN Then(r, All_generate(as, i + 1, r.st, Append(outs, r.out)))

----------------------------------------------------------------------------
(* The process: main() builds the graph once and calls generate() on it;   *)
(* the files change under it.                                              *)

\* main.rs: asset::Dynamic::new(&config), stamped with the time at which
\* the process started.
dynamic_config == Dynamic(Config, started)

\* main.rs: asset(&bump, &args.output, asset::Dynamic::new(&config)).
root == asset(dynamic_config)

\* The graph before the first generate().
InitGraph ==
    /\ now = 2
    /\ fs = [p \in Paths |->
                IF p \in Dirs \cup {PostTemplate} \cup {IncludeSrc(i) : i \in Includes}
                THEN [mt |-> 1, data |-> [ver |-> 1, draft |-> FALSE]]
                ELSE Absent]
    /\ cells = [c \in CacheIds |-> None]
    /\ ran = {}
    /\ dirty = {}
    /\ startDirty = {}
    /\ gens = 0
    /\ changes = 0
    /\ faulty = {}
    /\ started = 2

\* main() before the watch loop is entered: no channel, no server thread.
NoLoop ==
    /\ mpc = "start" /\ chan = << >> /\ expired = FALSE /\ srv = "none"
    /\ clients = << >> /\ seen = << >>
    /\ burst = 0 /\ passed = FALSE /\ late = FALSE /\ g = 0
    /\ pending = FALSE /\ dropped = FALSE
    /\ evq = << >> /\ wr = << >> /\ wrote = {}

\* No request is being answered.
NoResponse == [status |-> 0, paths |-> {}, body |-> "empty"]
NoRequest == req = [kind |-> "none"] /\ resp = NoResponse /\ page404 = TRUE

\* No minifier is running and no template is in use.
NoLib == mini = [pc |-> "none"] /\ tmpl = [pc |-> "none"]

Init == InitGraph /\ NoLoop /\ NoRequest /\ NoLib

\* A build that also removes the outputs no node of the graph stands for.
\* For comparison with the one of the code below.
Run_pruned ==
    LET r == generate(root, [fs |-> fs, cells |-> cells, ran |-> {}])
    IN /\ fs' = [p \in DOMAIN r.st.fs |->
                   IF p \in Outputs /\ <<"node", p>> \notin r.st.ran
                   THEN Absent ELSE r.st.fs[p]]
       /\ cells' = r.st.cells
       /\ ran' = r.st.ran
       /\ startDirty' = dirty
       /\ dirty' = {}
       /\ gens' = IF gens < 2 THEN gens + 1 ELSE gens
       /\ UNCHANGED <<now, changes, faulty, started>>

\* asset.generate() on the root of the graph: what it does to the files
\* and the cells.
Run ==
    LET r == generate(root, [fs |-> fs, cells |-> cells, ran |-> {}])
    IN /\ fs' = r.st.fs
       /\ cells' = r.st.cells
       /\ ran' = r.st.ran
       /\ startDirty' = dirty
       /\ dirty' = {}
       /\ gens' = IF gens < 2 THEN gens + 1 ELSE gens
       /\ UNCHANGED <<now, changes, faulty, started>>

\* asset.generate() of main().
Generate ==
    /\ Run
    /\ UNCHANGED <<loopVars, clients, watchGhost, httpVars, libVars, seen, fsVars>>

\* Time passes.
Tick ==
    /\ now < MaxTime
    /\ now' = now + 1
    /\ dirty' = dirty \cup {"clock"}
    /\ UNCHANGED <<fs, cells, ran, startDirty, gens, changes, faulty, started, loopVars, clients, watchGhost, httpVars, libVars, seen, fsVars>>

\* A source file is written by the user: new content, mtime now.
EditFile(p, d) ==
    /\ changes < MaxChanges
    /\ Exists(fs, p)
    /\ fs' = [fs EXCEPT ![p] = [mt |-> now, data |-> [ver |-> changes + 2, draft |-> d]]]
    /\ changes' = changes + 1
    /\ dirty' = dirty \cup {p}
    /\ UNCHANGED <<now, cells, ran, startDirty, gens, faulty, started, loopVars, clients, watchGhost, httpVars, libVars, seen, fsVars>>

\* A file is created in a directory: the directory's mtime is now as well.
AddFile(p, dir, d) ==
    /\ changes < MaxChanges
    /\ ~Exists(fs, p)
    /\ fs' = [fs EXCEPT ![p] = [mt |-> now, data |-> [ver |-> changes + 2, draft |-> d]],
                        ![dir] = [@ EXCEPT !.mt = now]]
    /\ changes' = changes + 1
    /\ dirty' = dirty \cup {p, dir}
    /\ UNCHANGED <<now, cells, ran, startDirty, gens, faulty, started, loopVars, clients, watchGhost, httpVars, libVars, seen, fsVars>>

\* The files the user edits; the includes of the templater are left alone.
Edited == SourceFiles \ {IncludeSrc(i) : i \in Includes}

Next ==
    \/ Generate
    \/ Tick
    \/ \E p \in Edited : EditFile(p, FALSE)
    \/ \E q \in Posts : AddFile(PostSrc(q), SrcDir, FALSE)
    \/ \E r \in RawFiles : AddFile(RawSrc(r), RawDir, FALSE)

Spec == Init /\ [][Next]_vars

----------------------------------------------------------------------------
(* The same process with files that fail, vanish or go back in time.       *)

\* The paths whose I/O is made to fail: the listing of the include
\* directory, the read of a post, the write of its page.
Fragile == {IncludeDir, PostSrc("a"), PostOut("a")}

\* The project with its sources in place, nothing built yet.
InitFault ==
    /\ NoLib
    /\ now = 2
    /\ fs = [p \in Paths |->
                IF p \in Dirs \cup SourceFiles
                THEN [mt |-> 1, data |-> [ver |-> 1, draft |-> FALSE]]
                ELSE Absent]
    /\ cells = [c \in CacheIds |-> None]
    /\ ran = {} /\ dirty = {} /\ startDirty = {} /\ gens = 0 /\ changes = 0
    /\ faulty \in {{}, {IncludeDir}}
    /\ started = 2
    /\ NoLoop /\ NoRequest

\* Path p starts to fail (permissions are taken away, the disk is full):
\* no mtime changes.
Break(p) ==
    /\ changes < MaxChanges
    /\ p \notin faulty
    /\ faulty' = faulty \cup {p}
    /\ changes' = changes + 1
    /\ dirty' = dirty \cup {p}
    /\ UNCHANGED <<now, fs, cells, ran, startDirty, gens, started, loopVars, clients, watchGhost, httpVars, libVars, seen, fsVars>>

\* Path p works again: no mtime changes.
Repair(p) ==
    /\ changes < MaxChanges
    /\ p \in faulty
    /\ faulty' = faulty \ {p}
    /\ changes' = changes + 1
    /\ dirty' = dirty \cup {p}
    /\ UNCHANGED <<now, fs, cells, ran, startDirty, gens, started, loopVars, clients, watchGhost, httpVars, libVars, seen, fsVars>>

\* File p is removed.
RemoveFile(p) ==
    /\ changes < MaxChanges
    /\ Exists(fs, p)
    /\ fs' = [fs EXCEPT ![p] = Absent]
    /\ changes' = changes + 1
    /\ dirty' = dirty \cup {p}
    /\ UNCHANGED <<now, cells, ran, startDirty, gens, faulty, started, loopVars, clients, watchGhost, httpVars, libVars, seen, fsVars>>

\* File p is replaced by an older file: new content, an earlier mtime.
Backdate(p) ==
    /\ changes < MaxChanges
    /\ fs[p].mt > 1
    /\ fs' = [fs EXCEPT ![p] = [mt |-> fs[p].mt - 1,
                                data |-> [ver |-> changes + 2, draft |-> FALSE]]]
    /\ changes' = changes + 1
    /\ dirty' = dirty \cup {p}
    /\ UNCHANGED <<now, cells, ran, startDirty, gens, faulty, started, loopVars, clients, watchGhost, httpVars, libVars, seen, fsVars>>

FaultNext ==
    \/ Generate
    \/ Tick
    \/ \E p \in {PostTemplate, IncludeDir} : EditFile(p, FALSE)
    \/ \E p \in Fragile : Break(p)
    \/ \E p \in Fragile : Repair(p)
    \/ RemoveFile(PostTemplate)
    \/ Backdate(PostTemplate)

FaultSpec == InitFault /\ [][FaultNext]_vars

----------------------------------------------------------------------------
(* The builder run again and again over the same project: each process     *)
(* starts with empty caches and a config stamped with its start.           *)

\* The project with its sources in place, nothing built yet.
InitRestart ==
    /\ NoLib
    /\ now = 2
    /\ fs = [p \in Paths |->
                IF p \in Dirs \cup SourceFiles
                THEN [mt |-> 1, data |-> [ver |-> 1, draft |-> FALSE]]
                ELSE Absent]
    /\ cells = [c \in CacheIds |-> None]
    /\ ran = {} /\ dirty = {} /\ startDirty = {} /\ gens = 0 /\ changes = 0
    /\ faulty = {}
    /\ started = 2
    /\ NoLoop /\ NoRequest

\* The process ends and the builder is started again, later: main() makes a
\* new graph, its cells empty, around a new Dynamic config.
Restart ==
    /\ gens >= 1
    /\ now > started
    /\ started' = now
    /\ cells' = [c \in CacheIds |-> None]
    /\ gens' = 0
    /\ dirty' = dirty \cup {"restart"}
    /\ UNCHANGED <<now, fs, ran, startDirty, changes, faulty, loopVars, clients, watchGhost, httpVars, libVars, seen, fsVars>>

RestartNext ==
    \/ Generate
    \/ Tick
    \/ \E p \in {PostTemplate, PostSrc("a")} : EditFile(p, FALSE)
    \/ Restart

RestartSpec == InitRestart /\ [][RestartNext]_vars

----------------------------------------------------------------------------
(* The icons of the site (icons.rs): one source image, two outputs behind  *)
(* two write nodes, one inside the other.                                  *)

IconPaths == {IconSrc, AppleTouchIcon, Favicon}

\* The source image is in place; the outputs are absent, or are those of an
\* earlier run whose encoding took a tick of the clock.
InitIcons ==
    /\ NoLib
    /\ now = 2
    /\ \E built \in BOOLEAN :
          fs = [p \in IconPaths |->
                  IF p = IconSrc THEN [mt |-> 1, data |-> [ver |-> 1, draft |-> FALSE]]
                  ELSE IF ~built THEN Absent
                  ELSE IF p = AppleTouchIcon
                  THEN [mt |-> 1, data |-> [ver |-> 1, draft |-> FALSE]]
                  ELSE [mt |-> 2, data |-> [ver |-> 1, draft |-> FALSE]]]
    /\ cells = [c \in CacheIds |-> None]
    /\ ran = {} /\ dirty = {} /\ startDirty = {} /\ gens = 0 /\ changes = 0
    /\ faulty = {}
    /\ started = 2
    /\ NoLoop /\ NoRequest

\* asset.generate() on the icons; when the images are encoded, `elapsed`
\* ticks pass between the two writes.
IconGenerate(elapsed) ==
    LET r == generate(icons_asset(dynamic_config, elapsed),
                      [fs |-> fs, cells |-> cells, ran |-> {}])
    IN /\ now + elapsed <= MaxTime
       /\ elapsed > 0 => <<"write", Favicon>> \in r.st.ran
       /\ fs' = r.st.fs
       /\ cells' = r.st.cells
       /\ ran' = r.st.ran
       /\ now' = now + elapsed
       /\ startDirty' = dirty
       /\ dirty' = {}
       /\ gens' = IF gens < 2 THEN gens + 1 ELSE gens
       /\ UNCHANGED <<changes, faulty, started, loopVars, clients, watchGhost, httpVars, libVars, seen, fsVars>>

IconNext ==
    \/ \E elapsed \in 0..1 : IconGenerate(elapsed)
    \/ Tick
    \/ EditFile(IconSrc, FALSE)

IconSpec == InitIcons /\ [][IconNext]_vars

----------------------------------------------------------------------------
(* The development server: requests and Service::fs_path (server.rs).      *)
(* A string is a sequence of units: a character, or a percent escape.      *)

Units == {"a", ".", "/", "\\", "%2e", "%2f", "%5c", "%252e", "%ff"}

\* What one unit decodes to: "%252e" is the text "%2e"; "%ff" is a byte
\* that is not UTF-8.
decode_unit(u) ==
    CASE u = "%2e" -> "."
      [] u = "%2f" -> "/"
      [] u = "%5c" -> "\\"
      [] u = "%252e" -> "%2e"
      [] u = "%ff" -> "0xff"
      [] OTHER -> u

\* percent_decode_str(path).decode_utf8().ok()
percent_decode(str) ==
    LET bytes == [i \in 1..Len(str) |-> decode_unit(str[i])]
    IN IF \E i \in 1..Len(bytes) : bytes[i] = "0xff" THEN [some |-> FALSE, v |-> << >>]
       ELSE [some |-> TRUE, v |-> bytes]

\* form_urlencoded::parse decodes a value, replacing bytes that are not
\* UTF-8 by U+FFFD.
form_decode(str) ==
    [i \in 1..Len(str) |-> IF decode_unit(str[i]) = "0xff" THEN "U+FFFD"
                           ELSE decode_unit(str[i])]

\* path.trim_start_matches('/')
RECURSIVE trim_start(_)
trim_start(str) ==
    IF str # << >> /\ Head(str) = "/" THEN trim_start(Tail(str)) ELSE str

\* decoded.split('/'): the parts between the slashes, empty ones included.
RECURSIVE split(_, _)
split(str, part) ==
    IF str = << >> THEN <<part>>
    ELSE IF Head(str) = "/" THEN <<part>> \o split(Tail(str), << >>)
    ELSE split(Tail(str), Append(part, Head(str)))

\* The test fs_path makes on each part.
never_rejected(part) == FALSE
rejected(part) ==
    \/ (part # << >> /\ Head(part) = ".")
    \/ \E i \in 1..Len(part) : part[i] = "\\"

\* A path is its components; a last component << >> is a trailing separator.
trailing(path) == path # << >> /\ path[Len(path)] = << >>
components(path) == IF trailing(path) THEN SubSeq(path, 1, Len(path) - 1) ELSE path

\* PathBuf::push of a relative part: an empty part adds a trailing separator
\* and no component.
push(path, part) == Append(components(path), part)

RECURSIVE push_all(_, _)
push_all(path, parts) ==
    IF parts = << >> THEN path
    ELSE push_all(push(path, Head(parts)), Tail(parts))

\* Path::starts_with: component-wise prefix.
starts_with(path, base) ==
    /\ Len(components(base)) <= Len(components(path))
    /\ SubSeq(components(path), 1, Len(components(base))) = components(base)

\* The file the operating system reaches through a path: relative paths
\* start at the working directory, ".." leaves a directory, "." stays.
RECURSIVE walk(_, _)
walk(at, path) ==
    IF path = << >> THEN at
    ELSE LET c == Head(path)
         IN walk(IF c = <<".", ".">> THEN (IF at = << >> THEN at ELSE SubSeq(at, 1, Len(at) - 1))
                 ELSE IF c = <<".">> THEN at
                 ELSE Append(at, c),
                 Tail(path))

Comp(name) == <<name>>
OutputRoot == <<Comp("dist")>>
WorkDir == <<Comp("site")>>
IndexHtml == <<"index", ".", "html">>
Resolve(path) == walk(WorkDir, components(path))

\* The files on disk: the site under site/dist, and files outside it.
DiskFiles ==
    { WorkDir \o OutputRoot \o <<IndexHtml>>,
      WorkDir \o OutputRoot \o << <<"a">> >>,
      WorkDir \o OutputRoot \o << <<"a", ".", "html">> >>,
      WorkDir \o OutputRoot \o << <<"a", "a", ".", "html">> >>,
      WorkDir \o OutputRoot \o << <<"a", "a", "a">>, IndexHtml >>,
      WorkDir \o <<IndexHtml>>,
      WorkDir \o << <<"a">> >> }
DiskDirs == UNION {{SubSeq(f, 1, n) : n \in 0..(Len(f) - 1)} : f \in DiskFiles}

\* fs::metadata(path): "file", "dir", or the error: a lookup that passes
\* through a regular file, a trailing separator included, fails with
\* NotADirectory; a missing entry fails with NotFound.
stat(path) ==
    LET at == Resolve(path)
    IN IF at \in DiskDirs THEN "dir"
       ELSE IF \E n \in 1..(Len(at) - 1) : SubSeq(at, 1, n) \in DiskFiles THEN "NotADirectory"
       ELSE IF at \in DiskFiles THEN (IF trailing(path) THEN "NotADirectory" ELSE "file")
       ELSE "NotFound"

is_file(path) == stat(path) = "file"
is_dir(path) == stat(path) = "dir"

\* Path::extension of the file name, the last component.
has_extension(path) ==
    /\ components(path) # << >>
    /\ LET name == components(path)[Len(components(path))]
       IN \E i \in 2..Len(name) : name[i] = "."

\* A set_extension that leaves the path as it is, for comparison.
keep_extension(path) == components(path)

\* Path::set_extension("html")
set_extension(path) ==
    [components(path) EXCEPT ![Len(components(path))] = @ \o <<".", "html">>]

\* The blocking task of fs_path: fs::metadata with its two fallbacks.
metadata(path) ==
    IF is_dir(path)
    THEN (IF stat(push(path, IndexHtml)) \in {"file", "dir"}
          THEN [some |-> TRUE, v |-> push(path, IndexHtml)]
          ELSE [some |-> FALSE, v |-> << >>])
    ELSE IF is_file(path) THEN [some |-> TRUE, v |-> path]
    ELSE IF stat(path) = "NotFound" /\ ~has_extension(path)
            /\ stat(set_extension(path)) \in {"file", "dir"}
    THEN [some |-> TRUE, v |-> set_extension(path)]
    ELSE [some |-> FALSE, v |-> << >>]

\* Service::fs_path
fs_path(str) ==
    LET decoded == percent_decode(trim_start(str))
        parts == split(decoded.v, << >>)
        path == push_all(OutputRoot, parts)
    IN IF ~decoded.some THEN [some |-> FALSE, v |-> << >>]
       ELSE IF \E i \in 1..Len(parts) : rejected(parts[i]) THEN [some |-> FALSE, v |-> << >>]
       ELSE IF ~starts_with(path, OutputRoot) THEN [some |-> FALSE, v |-> << >>]
       ELSE metadata(path)

\* Service::not_found: the body is 404.html of the output root, or empty
\* when it cannot be read.
not_found ==
    [status |-> 404, paths |-> {}, body |-> IF page404 THEN "404.html" ELSE "empty"]

\* bad_request
bad_request == [status |-> 400, paths |-> {}, body |-> "error"]

\* Service::respond_file
respond_file(r) ==
    LET found == fs_path(r.path)
    IN IF ~found.some THEN not_found
       ELSE IF r.method = "HEAD" THEN [status |-> 200, paths |-> {found.v}, body |-> "empty"]
       ELSE IF r.method = "GET"
       THEN (IF is_file(found.v) THEN [status |-> 200, paths |-> {found.v}, body |-> "file"]
             ELSE not_found)
       ELSE [status |-> 405, paths |-> {}, body |-> "empty"]

\* Service::respond_sse: the loop over the query pairs, then the stream.
RECURSIVE respond_sse(_, _)
respond_sse(query, paths) ==
    IF query = << >> THEN [status |-> 200, paths |-> paths, body |-> "stream"]
    ELSE LET key == Head(query)[1]
             value == form_decode(Head(query)[2])
             found == fs_path(value)
         IN IF key # "path" THEN bad_request
            ELSE IF ~found.some THEN not_found
            ELSE respond_sse(Tail(query), paths \cup {found.v})

\* The request strings, and the requests made of them.
Strings == UNION {[1..n -> Units] : n \in 0..MaxPathLen}
Before == { << >>, << <<"x", <<"a">> >> >>, << <<"path", <<"a">> >> >>,
            << <<"path", <<"%2e", "a">> >> >> }
Requests ==
    [kind : {"file"}, method : {"GET", "HEAD", "POST"}, path : {<<"/">> \o t : t \in Strings}]
      \cup [kind : {"watch"}, query : {b \o << <<"path", t>> >> : b \in Before, t \in Strings}]

\* A request arrives.
InitHttp ==
    /\ NoLib
    /\ InitGraph /\ NoLoop
    /\ req \in Requests
    /\ resp = NoResponse
    /\ page404 \in BOOLEAN

\* Service::respond for a path other than /watch.
RespondFile ==
    /\ req.kind = "file" /\ resp.status = 0
    /\ resp' = respond_file(req)
    /\ UNCHANGED <<req, page404, libVars, graphVars, loopVars, clients, watchGhost, seen, fsVars>>

\* Service::respond for /watch.
RespondSse ==
    /\ req.kind = "watch" /\ resp.status = 0
    /\ resp' = respond_sse(req.query, {})
    /\ UNCHANGED <<req, page404, libVars, graphVars, loopVars, clients, watchGhost, seen, fsVars>>

HttpNext == RespondFile \/ RespondSse

HttpSpec == InitHttp /\ [][HttpNext]_vars

----------------------------------------------------------------------------
(* The watch loop of main() (main.rs 89-143) and the watcher callback.     *)

\* channel::bounded::<anyhow::Result<()>>(1)
ChannelCap == 1

\* Sender::try_send: the message is dropped when the channel is full.
never_send(ch, msg) == ch
try_send(ch, msg) == IF Len(ch) < ChannelCap THEN Append(ch, msg) ELSE ch

\* `msg?` inside the debounce loop: an Err returns from main(), an Ok goes
\* round the `while let` again.
message_rebuilds(msg) == IF msg = "err" THEN "exited" ELSE "running"
message_ignored(msg) == "debounce"
after_message(msg) == IF msg = "err" THEN "exited" ELSE "debounce"

\* notify events: the kind, and the paths the event names (each a sequence
\* of components).
Abs(path) == WorkDir \o path
SourceFile == <<Comp("src"), <<"a", ".", "md">> >>
SourceEvent == [kind |-> "modify", paths |-> {Abs(SourceFile)}]
AccessEvent == [kind |-> "access", paths |-> {Abs(SourceFile)}]

\* Path::ends_with: the components of `child` are the last ones of `path`.
always_ends_with(path, child) == TRUE
ends_with(path, child) ==
    /\ Len(child) <= Len(path)
    /\ SubSeq(path, Len(path) - Len(child) + 1, Len(path)) = child

\* broadcast::channel(64), with a smaller capacity here.
EventsCap == 2

\* The longest file served, in bytes.
MaxBody == 2

\* A /watch stream: whether its task is subscribed, the paths it watches,
\* the events it has not received yet (the broadcast channel keeps the last
\* EventsCap of them; `lagged` when older ones were overwritten), whether
\* the client still holds the connection, the reloads it was sent, and
\* whether the task logged an error.
NoClient == [st |-> "none", paths |-> {}, q |-> << >>, lagged |-> FALSE,
             conn |-> FALSE, reloads |-> 0, logged |-> FALSE]

\* broadcast::Sender::send on one receiver.
enqueue(c, ev) ==
    IF c.st # "open" THEN c
    ELSE IF Len(c.q) < EventsCap THEN [c EXCEPT !.q = Append(@, ev)]
    ELSE [c EXCEPT !.q = Append(Tail(@), ev), !.lagged = TRUE]

\* A channel that hands an event to one receiver only.
update_first(cs, ev) ==
    IF \E c \in DOMAIN cs : cs[c].st = "open"
    THEN LET first == CHOOSE c \in DOMAIN cs : cs[c].st = "open"
         IN [cs EXCEPT ![first] = enqueue(@, ev)]
    ELSE cs

\* Server::update: the event goes to every receiver of the channel.
update(cs, ev) == [c \in DOMAIN cs |-> enqueue(cs[c], ev)]

\* A callback whose send waits for room in the channel.  For comparison
\* with the one of the code below.
Callback_blocking(ev) ==
    IF ev.kind \in {"error", "access"}
    THEN UNCHANGED <<chan, clients>>
    ELSE /\ Len(chan) < ChannelCap
         /\ chan' = Append(chan, "ok")
         /\ clients' = update(clients, ev)

\* A callback that treats every event alike.  For comparison with the one
\* of the code below.
Callback_unfiltered(ev) ==
    /\ chan' = try_send(chan, "ok")
    /\ clients' = update(clients, ev)

\* The watcher callback: an Err of the watcher is logged and an access
\* event is ignored; any other event signals the loop (try_send) and is
\* handed to the server.
Callback(ev) ==
    IF ev.kind \in {"error", "access"}
    THEN UNCHANGED <<chan, clients>>
    ELSE /\ chan' = try_send(chan, "ok")
         /\ clients' = update(clients, ev)

\* A generate() call starts in this step.
Starts == mpc # "running" /\ mpc' = "running"

\* The ghosts of the loop, kept by every step of the loop.
LoopGhost ==
    /\ g' = IF Starts /\ g < 3 THEN g + 1 ELSE g
    /\ pending' = IF Starts THEN FALSE ELSE pending
    /\ UNCHANGED <<burst, late, dropped>>

\* The file named by an event is the watched one, or a file elsewhere whose
\* path ends with the components of the watched path.
NestedCopy(path) == WorkDir \o <<Comp("old")>> \o path
Sees(c, s, ev) ==
    IF c.st # "open" THEN s
    ELSE [named |-> s.named \/ \E w \in c.paths : Abs(w) \in ev.paths,
          nested |-> s.nested \/ \E w \in c.paths : NestedCopy(w) \in ev.paths]

\* The callback is called with a filesystem event.
CallbackStep(ev) ==
    /\ mpc \in {"recv", "debounce", "running"}
    /\ burst < MaxEvents
    /\ Callback(ev)
    /\ IF ev.kind \in {"error", "access"} THEN UNCHANGED <<burst, late, pending, dropped, seen>>
       ELSE /\ burst' = burst + 1
            /\ late' = (late \/ passed)
            /\ pending' = TRUE
            /\ dropped' = (dropped \/ Len(chan) = ChannelCap)
            /\ seen' = [c \in DOMAIN clients |-> Sees(clients[c], seen[c], ev)]
    /\ UNCHANGED <<mpc, expired, srv, passed, g, graphVars, httpVars, libVars>>

\* The watcher calls the callback as soon as the event happens.
WatchEvent(ev) == CallbackStep(ev) /\ UNCHANGED fsVars

\* receiver.recv()?, then the deadline is set.
MainRecv ==
    /\ mpc = "recv"
    /\ chan # << >>
    /\ chan' = Tail(chan)
    /\ mpc' = IF Head(chan) = "err" THEN "exited" ELSE "debounce"
    /\ expired' = FALSE
    /\ LoopGhost
    /\ UNCHANGED <<srv, clients, passed, graphVars, httpVars, libVars, seen, fsVars>>

\* The debounce deadline passes.
Expire ==
    /\ mpc = "debounce"
    /\ ~expired
    /\ expired' = TRUE
    /\ passed' = TRUE
    /\ UNCHANGED <<mpc, chan, srv, clients, burst, late, g, pending, dropped>>
    /\ UNCHANGED <<graphVars, httpVars, libVars, seen, fsVars>>

\* receiver.recv_deadline(deadline) returns a message: one that is ready is
\* returned whether or not the deadline has passed.
DebounceRecv ==
    /\ mpc = "debounce"
    /\ chan # << >>
    /\ chan' = Tail(chan)
    /\ mpc' = after_message(Head(chan))
    /\ LoopGhost
    /\ UNCHANGED <<expired, srv, clients, passed, graphVars, httpVars, libVars, seen, fsVars>>

\* receiver.recv_deadline(deadline) times out; asset.generate() starts.
DebounceTimeout ==
    /\ mpc = "debounce"
    /\ expired
    /\ chan = << >>
    /\ mpc' = "running"
    /\ LoopGhost
    /\ UNCHANGED <<chan, expired, srv, clients, passed, graphVars, httpVars, libVars, seen, fsVars>>

\* asset.generate() returns; the loop is back at recv().
GenerateReturns ==
    /\ mpc = "running"
    /\ wr = << >>
    /\ mpc' = "recv"
    /\ wrote' = {}
    /\ LoopGhost
    /\ UNCHANGED <<chan, expired, srv, clients, passed, graphVars, httpVars, libVars, seen, evq, wr>>

\* notify::recommended_watcher(..) or watcher.watch(..) returns an error,
\* which `?` returns from main().
WatcherFails ==
    /\ mpc = "setup"
    /\ mpc' = "exited"
    /\ UNCHANGED <<chan, expired, srv, clients, watchGhost, graphVars, httpVars, libVars, seen, fsVars>>

\* The watcher is created and watches the project directory: the loop is
\* entered.
WatcherStarts ==
    /\ mpc = "setup"
    /\ mpc' = "recv"
    /\ UNCHANGED <<chan, expired, srv, clients, watchGhost, graphVars, httpVars, libVars, seen, fsVars>>

\* server.listen(port) returns an error in the server thread, which was
\* spawned before the watcher is created.
ServerFails ==
    /\ mpc \in {"setup", "recv", "debounce", "running"}
    /\ srv = "listening"
    /\ srv' = "failed"
    /\ UNCHANGED <<mpc, chan, expired, clients, watchGhost, graphVars, httpVars, libVars, seen, fsVars>>

\* sender.send(Err(..)) of the server thread: it blocks until there is room.
ServerSends ==
    /\ mpc \in {"setup", "recv", "debounce", "running"}
    /\ srv = "failed"
    /\ Len(chan) < ChannelCap
    /\ chan' = Append(chan, "err")
    /\ srv' = "sent"
    /\ UNCHANGED <<mpc, expired, clients, watchGhost, graphVars, httpVars, libVars, seen, fsVars>>

\* The loop is entered with --watch (no server thread) or --serve-port.
InitWatch ==
    /\ NoLib
    /\ InitGraph
    /\ mpc = "setup" /\ chan = << >> /\ expired = FALSE
    /\ srv \in {"none", "listening"}
    /\ clients = << >> /\ seen = << >>
    /\ burst = 0 /\ passed = FALSE /\ late = FALSE /\ g = 0
    /\ pending = FALSE /\ dropped = FALSE
    /\ evq = << >> /\ wr = << >> /\ wrote = {}
    /\ NoRequest

WatchNext ==
    \/ WatcherFails
    \/ WatcherStarts
    \/ WatchEvent(SourceEvent)
    \/ WatchEvent(AccessEvent)
    \/ MainRecv
    \/ Expire
    \/ DebounceRecv
    \/ DebounceTimeout
    \/ GenerateReturns
    \/ ServerFails
    \/ ServerSends

WatchSpec == InitWatch /\ [][WatchNext]_vars

\* The main thread runs, time passes, a generate() returns, and a blocked
\* send completes once there is room.
FairWatchSpec ==
    /\ WatchSpec
    /\ WF_vars(WatcherFails \/ WatcherStarts)
    /\ WF_vars(MainRecv) /\ WF_vars(Expire) /\ WF_vars(DebounceRecv)
    /\ WF_vars(DebounceTimeout) /\ WF_vars(GenerateReturns) /\ WF_vars(ServerSends)

----------------------------------------------------------------------------
(* The /watch streams of the server (server.rs 99-150).  The steps of the  *)
(* loop of main() do not touch the streams and are left out here.          *)

Clients == {"c1", "c2", "c3"}

\* The output files the clients watch, by the path they ask for.
AskA == <<"a">>
AskB == <<"a", "a">>
OutA == fs_path(AskA).v
OutB == fs_path(AskB).v
Asks(c) == IF c = "c3" THEN AskB ELSE AskA

\* The events the watcher reports.
Modify(path) == [kind |-> "modify", paths |-> {path}]
ServeEvents ==
    { Modify(Abs(OutA)), Modify(Abs(OutB)), Modify(NestedCopy(OutA)),
      [kind |-> "access", paths |-> {Abs(OutA)}] }

\* Whether the task of a stream breaks out of its loop on an event.
matches(paths, ev) ==
    \E changed_path \in ev.paths : \E watched_path \in paths :
        ends_with(changed_path, watched_path)

\* GET /watch?path=..: respond_sse resolves the paths, subscribes to the
\* channel and spawns the task of the stream.
Subscribe(c) ==
    LET r == respond_sse(<< <<"path", Asks(c)>> >>, {})
    IN /\ clients[c].st = "none"
       /\ r.status = 200
       /\ clients' = [clients EXCEPT ![c] =
              [st |-> "open", paths |-> r.paths, q |-> << >>, lagged |-> FALSE,
               conn |-> TRUE, reloads |-> 0, logged |-> FALSE]]
       /\ UNCHANGED <<loopVars, watchGhost, graphVars, httpVars, libVars, seen, fsVars>>

\* A task that writes the event and goes on receiving.  For comparison
\* with the one of the code below.
send_data_loop(c) ==
    [c EXCEPT !.reloads = IF c.conn THEN @ + 1 ELSE @, !.lagged = FALSE]

\* sender.send_data("data:\n\n"): written when the client is still there,
\* an error that is_closed() otherwise, which is not logged; the task ends
\* either way.
send_data(c) ==
    LET sent == IF c.conn THEN Ok(Unit) ELSE Err("closed")
    IN [c EXCEPT !.st = "done",
                 !.reloads = IF sent.ok THEN @ + 1 ELSE @,
                 !.logged = ~sent.ok /\ sent.v # "closed"]

\* One turn of the task of a stream: receiver.recv().await and the match.
\* A stream that looks at its events only while the main thread is not
\* building.  For comparison with the one of the code below.
ClientRecv_waits(c) ==
    /\ mpc # "running"
    /\ clients[c].st = "open"
    /\ clients[c].lagged \/ clients[c].q # << >>
    /\ clients' = [clients EXCEPT ![c] =
          IF @.lagged THEN send_data(@)
          ELSE IF matches(@.paths, Head(@.q)) THEN send_data([@ EXCEPT !.q = Tail(@)])
          ELSE [@ EXCEPT !.q = Tail(@)]]
    /\ UNCHANGED <<loopVars, watchGhost, graphVars, httpVars, libVars, seen, fsVars>>

ClientRecv(c) ==
    /\ clients[c].st = "open"
    /\ clients[c].lagged \/ clients[c].q # << >>
    /\ clients' = [clients EXCEPT ![c] =
          IF @.lagged THEN send_data(@)
          ELSE IF matches(@.paths, Head(@.q)) THEN send_data([@ EXCEPT !.q = Tail(@)])
          ELSE [@ EXCEPT !.q = Tail(@)]]
    /\ UNCHANGED <<loopVars, watchGhost, graphVars, httpVars, libVars, seen, fsVars>>

\* The client closes its connection; the task is not told.
Disconnect(c) ==
    /\ clients[c].st = "open"
    /\ clients[c].conn
    /\ clients' = [clients EXCEPT ![c].conn = FALSE]
    /\ UNCHANGED <<loopVars, watchGhost, graphVars, httpVars, libVars, seen, fsVars>>

\* The server is up; no stream is open.
InitServe ==
    /\ NoLib
    /\ InitGraph /\ NoRequest
    /\ mpc = "recv" /\ chan = << >> /\ expired = FALSE /\ srv = "listening"
    /\ clients = [c \in Clients |-> NoClient]
    /\ seen = [c \in Clients |-> [named |-> FALSE, nested |-> FALSE]]
    /\ burst = 0 /\ passed = FALSE /\ late = FALSE /\ g = 0
    /\ pending = FALSE /\ dropped = FALSE
    /\ evq = << >> /\ wr = << >> /\ wrote = {}

ServeNext ==
    \/ \E ev \in ServeEvents : burst < MaxBroadcast /\ WatchEvent(ev)
    \/ \E c \in Clients : Subscribe(c)
    \/ \E c \in Clients : ClientRecv(c)
    \/ \E c \in Clients : Disconnect(c)

ServeSpec == InitServe /\ [][ServeNext]_vars

----------------------------------------------------------------------------
(* Serving while rebuilding: the loop of main(), the files generate()      *)
(* writes under the watched directory, the watcher and one /watch stream.  *)

\* The output files a generate() may rewrite.
Rewritten == {OutA, OutB}

\* The user saves a source file; the watcher has an event to deliver.
UserEdit ==
    /\ mpc \in {"recv", "debounce", "running"}
    /\ Len(evq) < MaxQueue
    /\ evq' = Append(evq, SourceEvent)
    /\ UNCHANGED <<wr, wrote, loopVars, clients, watchGhost, graphVars, httpVars, libVars, seen>>

\* The watcher thread calls the callback with its oldest event.
Deliver ==
    /\ evq # << >>
    /\ CallbackStep(Head(evq))
    /\ evq' = Tail(evq)
    /\ UNCHANGED <<wr, wrote>>

\* util::write_file, first part: fs::write opens and truncates the file and
\* starts writing; the file is modified.
WriteBegin(o) ==
    /\ mpc = "running"
    /\ wr = << >>
    /\ o \notin wrote
    /\ Len(evq) < MaxQueue
    /\ wr' = o
    /\ evq' = Append(evq, Modify(Abs(o)))
    /\ UNCHANGED <<wrote, loopVars, clients, watchGhost, graphVars, httpVars, libVars, seen>>

\* util::write_file, second part: the last bytes are written and the file
\* is closed (an access event: Close(Write)).
WriteEnd ==
    /\ wr # << >>
    /\ Len(evq) < MaxQueue
    /\ wr' = << >>
    /\ wrote' = wrote \cup {wr}
    /\ evq' = Append(evq, [kind |-> "access", paths |-> {Abs(wr)}])
    /\ UNCHANGED <<loopVars, clients, watchGhost, graphVars, httpVars, libVars, seen>>

\* The server is up and the loop is at recv(); no stream is open yet.
InitReload ==
    /\ NoLib
    /\ InitGraph /\ NoRequest
    /\ mpc = "recv" /\ chan = << >> /\ expired = FALSE /\ srv = "listening"
    /\ clients = [c \in {"c1"} |-> NoClient]
    /\ seen = [c \in {"c1"} |-> [named |-> FALSE, nested |-> FALSE]]
    /\ burst = 0 /\ passed = FALSE /\ late = FALSE /\ g = 0
    /\ pending = FALSE /\ dropped = FALSE
    /\ evq = << >> /\ wr = << >> /\ wrote = {}

ReloadNext ==
    \/ UserEdit
    \/ Deliver
    \/ WatchEvent([kind |-> "error", paths |-> {}])
    \/ MainRecv
    \/ Expire
    \/ DebounceRecv
    \/ DebounceTimeout
    \/ \E o \in Rewritten : WriteBegin(o)
    \/ WriteEnd
    \/ GenerateReturns
    \/ Subscribe("c1")
    \/ ClientRecv("c1")

ReloadSpec == InitReload /\ [][ReloadNext]_vars

----------------------------------------------------------------------------
(* The minifiers (util/minify.rs): html, css and js hand their input to an *)
(* external tool through pipe() and fall back to the input.                *)

MaxSrcLen == 2

\* The texts given to a minifier.
Sources == UNION {[1..n -> {"a", " "}] : n \in 0..MaxSrcLen}

\* What the tool writes to its stdout for an input when it works.
Minified(src) == SelectSeq(src, LAMBDA c : c # " ")

\* A match that hands back the error's text instead of the input.
no_fallback(res, src) == res.v

\* The `match res` of html, css and js.
fallback(res, src) == IF res.ok THEN res.v ELSE src

\* minify::html(src), css(src) or js(src) is called.
InitMinify ==
    /\ InitGraph /\ NoLoop /\ NoRequest
    /\ tmpl = [pc |-> "none"]
    /\ mini \in [pc : {"spawn"}, tool : {"html", "css", "js"}, src : Sources,
                  out : {<< >>}, res : {Ok(<< >>)}, ret : {<< >>}]

\* pipe() fails at its current step: the error is returned with `?`.
Fails(step) ==
    /\ mini.pc = step
    /\ mini' = [mini EXCEPT !.pc = "match", !.res = Err(<<step>>)]
    /\ UNCHANGED <<tmpl, graphVars, loopVars, clients, watchGhost, httpVars, seen, fsVars>>

\* pipe(): command.spawn() succeeds.
Spawn ==
    /\ mini.pc = "spawn"
    /\ mini' = [mini EXCEPT !.pc = "write"]
    /\ UNCHANGED <<tmpl, graphVars, loopVars, clients, watchGhost, httpVars, seen, fsVars>>

\* pipe(): the input is written to the child's stdin, which is then closed.
WriteStdin ==
    /\ mini.pc = "write"
    /\ mini' = [mini EXCEPT !.pc = "read"]
    /\ UNCHANGED <<tmpl, graphVars, loopVars, clients, watchGhost, httpVars, seen, fsVars>>

\* pipe(): the child's stdout is read to its end; a tool that works has
\* written the minified text, one that does not may have written anything.
ReadStdout ==
    /\ mini.pc = "read"
    /\ \E text \in {Minified(mini.src), << >>, <<"e">>} :
          mini' = [mini EXCEPT !.pc = "wait", !.out = text]
    /\ UNCHANGED <<tmpl, graphVars, loopVars, clients, watchGhost, httpVars, seen, fsVars>>

\* pipe(): child.wait() returns the exit status; ensure!(status.success()).
Wait(success) ==
    /\ mini.pc = "wait"
    /\ mini' = [mini EXCEPT !.pc = "match",
                            !.res = IF success THEN Ok(mini.out) ELSE Err(<<"status">>)]
    /\ UNCHANGED <<tmpl, graphVars, loopVars, clients, watchGhost, httpVars, seen, fsVars>>

\* html, css, js: the result of pipe() is matched and a String returned.
Match ==
    /\ mini.pc = "match"
    /\ mini' = [mini EXCEPT !.pc = "returned", !.ret = fallback(mini.res, mini.src)]
    /\ UNCHANGED <<tmpl, graphVars, loopVars, clients, watchGhost, httpVars, seen, fsVars>>

MinifyNext ==
    \/ \E step \in {"spawn", "write", "read", "wait"} : Fails(step)
    \/ Spawn
    \/ WriteStdin
    \/ ReadStdout
    \/ \E success \in BOOLEAN : Wait(success)
    \/ Match

MinifySpec == InitMinify /\ [][MinifyNext]_vars

----------------------------------------------------------------------------
(* The simple template system (template.rs).  Texts are sequences of      *)
(* one-character strings; indices and ranges are the code's: they count    *)
(* from 0, and a range start..end leaves `end` out.                        *)

MaxTemplateLen == 4

\* The characters of a template: the backslash, the braces and a letter.
Alphabet == {"\\", "{", "}", "a"}

Origins == UNION {[1..n -> Alphabet] : n \in 0..MaxTemplateLen}

\* The arrays of (name, value) pairs handed to apply().
VarSets == {<< >>, << <<<<"a">>, <<"x">>>> >>, << <<<< >>, <<"y">>>>, <<<<"a">>, <<"x">>>> >>}

NotFound == 0 - 1

\* memchr::memchr(c, bytes): the first index of c in bytes, if any.
memchr(c, bytes) ==
    IF \E i \in 1..Len(bytes) : bytes[i] = c
    THEN (CHOOSE i \in 1..Len(bytes) : bytes[i] = c /\ \A j \in 1..(i - 1) : bytes[j] # c) - 1
    ELSE NotFound

\* &s[a..b] is in bounds; the slice panics otherwise.
InBounds(s, a, b) == a <= b /\ b <= Len(s)

\* &s[a..b]
Slice(s, a, b) == SubSeq(s, a + 1, b)

\* The loop of Template::new over the bytes that remain.
RECURSIVE new_loop(_, _)
new_loop(bytes, substitutions) ==
    LET start == memchr("\\", bytes) IN
    IF start = NotFound THEN Ok(substitutions)
    ELSE IF start + 1 >= Len(bytes) THEN Err("TrailingBackslash")
    ELSE LET c == bytes[start + 2]
             close == memchr("}", bytes)
             end == IF c = "\\" THEN start + 2 ELSE close + 1
         IN  IF c \notin {"\\", "{"} THEN Err("UnexpectedAfterBackslash")
             ELSE IF c = "{" /\ close = NotFound THEN Err("NoClosingBrace")
             ELSE new_loop(Slice(bytes, end, Len(bytes)),
                           Append(substitutions, <<start, end>>))

\* Template::new(origin): the ranges of the substitutions, or a ParseError.
Template_new(origin) == new_loop(origin, << >>)

\* vars.iter().find(|&&(k, _)| k == var_name)
find(vs, var_name) ==
    IF \E i \in 1..Len(vs) : vs[i][1] = var_name
    THEN <<vs[CHOOSE i \in 1..Len(vs) :
                 vs[i][1] = var_name /\ \A j \in 1..(i - 1) : vs[j][1] # var_name][2]>>
    ELSE << >>

\* The loop of Template::apply: Ok(output), or Err("panic") when a slice is
\* out of bounds.
RECURSIVE apply_loop(_, _, _, _)
apply_loop(rest, substitutions, vs, output) ==
    IF substitutions = << >> THEN Ok(output \o rest)
    ELSE LET start == Head(substitutions)[1]
             end == Head(substitutions)[2]
         IN  IF ~InBounds(rest, 0, start) \/ start + 2 > Len(rest) THEN Err("panic")
             ELSE LET copied == output \o Slice(rest, 0, start)
                      var_name == Slice(rest, start + 2, end - 1)
                      value == find(vs, var_name)
                      literal == Slice(rest, start, end)
                  IN  IF rest[start + 2] = "\\"
                      THEN IF ~InBounds(rest, end, Len(rest)) THEN Err("panic")
                           ELSE apply_loop(Slice(rest, end, Len(rest)), Tail(substitutions),
                                           vs, Append(copied, "\\"))
                      ELSE IF ~InBounds(rest, start + 2, end - 1) THEN Err("panic")
                      ELSE IF value = << >> /\ ~InBounds(rest, start, end) THEN Err("panic")
                      ELSE apply_loop(Slice(rest, end, Len(rest)), Tail(substitutions), vs,
                                      copied \o (IF value # << >> THEN value[1] ELSE literal))

\* template.apply(&mut output, vars) on an empty output.
apply(template, vs) == apply_loop(template.origin, template.substitutions, vs, << >>)

\* A source is about to be parsed and applied to some variables.
InitTemplate ==
    /\ InitGraph /\ NoLoop /\ NoRequest
    /\ mini = [pc |-> "none"]
    /\ tmpl \in [pc : {"new"}, origin : Origins, vars : VarSets,
                  parsed : {Ok(<< >>)}, applied : {Ok(<< >>)}]

\* Template::new(origin)
TemplateNew ==
    /\ tmpl.pc = "new"
    /\ LET res == Template_new(tmpl.origin) IN
         tmpl' = [tmpl EXCEPT !.pc = IF res.ok THEN "template" ELSE "rejected", !.parsed = res]
    /\ UNCHANGED <<mini, graphVars, loopVars, clients, watchGhost, httpVars, seen, fsVars>>

\* template.apply(&mut output, vars)
TemplateApply ==
    /\ tmpl.pc = "template"
    /\ LET res == apply([origin |-> tmpl.origin, substitutions |-> tmpl.parsed.v], tmpl.vars) IN
         tmpl' = [tmpl EXCEPT !.pc = IF res.ok THEN "applied" ELSE "panicked", !.applied = res]
    /\ UNCHANGED <<mini, graphVars, loopVars, clients, watchGhost, httpVars, seen, fsVars>>

TemplateNext ==
    \/ TemplateNew
    \/ TemplateApply

TemplateSpec == InitTemplate /\ [][TemplateNext]_vars

----------------------------------------------------------------------------
(* What the claims about the build graph speak of.                         *)

Here == [fs |-> fs, cells |-> cells, ran |-> {}]

\* The write nodes of the graph: a ModifiesPath over the step that writes.
WriteNodes == {post_page(p, dynamic_config) : p \in Posts} \cup {raw_copy(r) : r \in RawFiles}

\* The output of write node n exists and is strictly newer than what n's
\* inner asset reports and than the executable.
StrictlyFresh(n) ==
    /\ Exists(fs, n.path)
    /\ fs[n.path].mt > modified(n.asset, Here).m
    /\ fs[n.path].mt > EXE_MODIFIED

\* The step is a generate() call (no other step empties `dirty`).
IsGenerate == dirty' = {}

Did(kind, r) == {w \in r : w[1] = kind}

\* The TextFile leaves that sit under a Cache, and the cell of each.
TextLeaves == {PostTemplate} \cup {PostSrc(q) : q \in Posts}
CellOf(p) == IF p = PostTemplate THEN <<"post_template", "">>
             ELSE PostId(CHOOSE q \in Posts : PostSrc(q) = p)
Label(id) == id[1] \o id[2]

\* The outputs built from leaf p.
Dependents(p) == IF p = PostTemplate THEN {PostOut(q) : q \in Posts}
                 ELSE {PostOut(q) : q \in {x \in Posts : PostSrc(x) = p}}

\* Output o as built from the current content of leaf p.
BuiltFrom(files, o, p) ==
    /\ Exists(files, o)
    /\ IF p = PostTemplate
       THEN files[o].data.template = Ok([name |-> "", compiled |-> files[p].data])
       ELSE files[o].data.post = Ok(files[p].data)

----------------------------------------------------------------------------
(* C1: write-skip idempotence.                                             *)

\* C1 as stated: a generate() call that finds nothing changed since the
\* previous call returned (the clock aside) invokes no write node's inner
\* generate and writes no output.
C1_Stated ==
    (gens = 2 /\ startDirty \subseteq {"clock"}) =>
        \A o \in Outputs : <<"inner", o>> \notin ran /\ <<"write", o>> \notin ran

\* C1, amended: a generate() call that finds nothing changed since the
\* previous call returned (the clock aside) neither invokes the inner
\* generate of a write node nor touches its output, provided the output's
\* mtime is strictly newer than the inner asset's modified() and than the
\* executable's mtime.
C1_WriteSkip ==
    [][(gens >= 1 /\ dirty \subseteq {"clock"} /\ IsGenerate) =>
        \A n \in WriteNodes : StrictlyFresh(n) =>
            /\ <<"inner", n.path>> \notin ran'
            /\ fs'[n.path] = fs[n.path]]_vars

\* A repeated call has skipped a write node whose output is strictly newer.
C1_Witness ==
    /\ gens = 2 /\ startDirty \subseteq {"clock"}
    /\ \E n \in WriteNodes : StrictlyFresh(n) /\ <<"inner", n.path>> \notin ran

----------------------------------------------------------------------------
(* C2: staleness monotonicity.                                             *)

\* C2 as stated: a generate() call that finds no input changed since the
\* previous call returned re-executes no work under a Cache or a write node.
C2_Stated ==
    (gens = 2 /\ startDirty = {}) => Did("miss", ran) \cup Did("inner", ran) = {}

\* C2, amended: a generate() call that finds no input changed since the
\* previous call returned (the clock included) invokes the child of no
\* Cache and leaves every cell, hence every cached output, as it was; it
\* invokes the inner generate of no write node whose output is strictly
\* newer than its inner asset's modified() and the executable's mtime.
C2_NoRework ==
    [][(gens >= 1 /\ dirty = {} /\ IsGenerate) =>
        /\ Did("miss", ran') = {}
        /\ cells' = cells
        /\ \A n \in WriteNodes : StrictlyFresh(n) =>
              <<"inner", n.path>> \notin ran' /\ fs'[n.path] = fs[n.path]]_vars

\* A repeated call with nothing changed has done no work at all (the
\* caches and write nodes were called and returned), with a filled cache
\* and a written output in place.
C2_Witness ==
    /\ gens = 2 /\ startDirty = {}
    /\ \A w \in ran : w[1] \in {"gen", "node", "compared", "setup", "asked"}
    /\ \E c \in CacheIds : cells[c].some
    /\ \E o \in Outputs : Exists(fs, o)

----------------------------------------------------------------------------
(* C3: cache correctness.                                                  *)

\* Leaf p is the one path changed since the previous generate() returned,
\* and its mtime is strictly newer than the one its Cache stored.
Touched(p) ==
    /\ gens >= 1
    /\ dirty \ {"clock"} = {p}
    /\ cells[CellOf(p)].some
    /\ cells[CellOf(p)].at < fs[p].mt

\* The next generate() re-reads p and builds p's dependents from its new
\* content.
Reread(p) ==
    /\ <<"read", p>> \in ran'
    /\ \A o \in Dependents(p) : Exists(fs, o) =>
          <<"write", o>> \in ran' /\ BuiltFrom(fs', o, p)

\* The caches that read the clock through a Volatile leaf.
VolatileCaches == {<<"raw", "">>}

\* C3 as stated: after the file behind a TextFile leaf p is updated, the
\* next generate() re-reads it and yields output from the new content, and
\* no Cache whose descendants do not include p invokes its child.
C3_Stated ==
    [][\A p \in TextLeaves : (Touched(p) /\ IsGenerate) =>
        /\ Reread(p)
        /\ \A c \in CacheIds \ {CellOf(p)} : <<"miss", Label(c)>> \notin ran']_vars

\* C3, amended: after the file behind a TextFile leaf p is updated to a
\* strictly newer mtime, the next generate() re-reads it and yields output
\* from the new content; a Cache whose descendants include neither p nor a
\* Volatile leaf, and whose cell holds a value, does not invoke its child.
C3_CacheCorrect ==
    [][\A p \in TextLeaves : (Touched(p) /\ IsGenerate) =>
        /\ Reread(p)
        /\ \A c \in CacheIds \ ({CellOf(p)} \cup VolatileCaches) :
              cells[c].some => <<"miss", Label(c)>> \notin ran']_vars

\* A post was edited, and the generate() that followed re-read it and wrote
\* its page from the new content, the shared template staying cached.
C3_Witness ==
    \E q \in Posts :
        /\ gens = 2 /\ startDirty \ {"clock"} = {PostSrc(q)}
        /\ <<"read", PostSrc(q)>> \in ran
        /\ <<"write", PostOut(q)>> \in ran
        /\ BuiltFrom(fs, PostOut(q), PostSrc(q))
        /\ <<"read", PostTemplate>> \notin ran
        /\ cells[<<"post_template", "">>].some

----------------------------------------------------------------------------
(* C4: Flatten staleness.                                                  *)

\* C4 as stated: once a generate() has returned after a file was added
\* under a directory a Flatten's outer asset reads (a Dir or a Volatile
\* walk), the file's artifact has been written.
C4_Stated ==
    /\ \A q \in Posts :
          (gens >= 1 /\ Exists(fs, PostSrc(q)) /\ PostSrc(q) \notin dirty)
              => Exists(fs, PostOut(q))
    /\ \A r \in RawFiles :
          (gens >= 1 /\ Exists(fs, RawSrc(r)) /\ RawSrc(r) \notin dirty)
              => Exists(fs, RawOut(r))

\* The timestamp the outer asset of a Flatten reports is strictly newer
\* than the one its Cache stored (or the Cache is empty).
OuterNewer(c, m) == ~cells[c].some \/ cells[c].at < m

\* C4, amended: a generate() call rebuilds the inner graph of a Flatten and
\* writes the artifact of every source file that has none, provided the
\* timestamp of the outer asset (the directory's mtime for a Dir, the clock
\* for a Volatile walk) is strictly newer than the one stored by the
\* previous rebuild.
C4_Discovery ==
    [][IsGenerate =>
        /\ \A q \in Posts :
              (Exists(fs, PostSrc(q)) /\ ~Exists(fs, PostOut(q))
                  /\ OuterNewer(<<"html", "">>, fs[SrcDir].mt))
              => /\ <<"miss", "html">> \in ran'
                 /\ <<"write", PostOut(q)>> \in ran'
                 /\ BuiltFrom(fs', PostOut(q), PostSrc(q))
        /\ \A r \in RawFiles :
              (Exists(fs, RawSrc(r)) /\ ~Exists(fs, RawOut(r))
                  /\ OuterNewer(<<"raw", "">>, now))
              => /\ <<"miss", "raw">> \in ran'
                 /\ <<"write", RawOut(r)>> \in ran'
                 /\ fs'[RawOut(r)].data = fs[RawSrc(r)].data]_vars

\* A post added after a generate() had returned was found by the next one,
\* which rebuilt the html sub-graph and wrote the post's page.
C4_Witness ==
    \E q \in Posts :
        /\ gens = 2 /\ {PostSrc(q), SrcDir} \subseteq startDirty
        /\ <<"miss", "html">> \in ran
        /\ <<"write", PostOut(q)>> \in ran
        /\ BuiltFrom(fs, PostOut(q), PostSrc(q))

\* The callback is called with an event of a stream of changes that does
\* not end: the count of the events saturates.
StreamEvent ==
    /\ mpc \in {"recv", "debounce", "running"}
    /\ Callback(SourceEvent)
    /\ burst' = IF burst < MaxEvents THEN burst + 1 ELSE burst
    /\ late' = (late \/ passed)
    /\ pending' = TRUE
    /\ dropped' = (dropped \/ Len(chan) = ChannelCap)
    /\ UNCHANGED <<mpc, expired, srv, passed, g, graphVars, httpVars, libVars, seen, fsVars>>

StreamNext ==
    \/ WatcherFails
    \/ WatcherStarts
    \/ StreamEvent
    \/ MainRecv
    \/ Expire
    \/ DebounceRecv
    \/ DebounceTimeout
    \/ GenerateReturns
    \/ ServerFails
    \/ ServerSends

\* The loop under changes that never stop: the main thread runs, time
\* passes and a generate() returns; nothing is assumed of the events.
StreamSpec ==
    /\ InitWatch /\ [][StreamNext]_vars
    /\ WF_vars(WatcherFails \/ WatcherStarts)
    /\ WF_vars(MainRecv) /\ WF_vars(Expire) /\ WF_vars(DebounceRecv)
    /\ WF_vars(DebounceTimeout) /\ WF_vars(GenerateReturns) /\ WF_vars(ServerSends)

----------------------------------------------------------------------------
(* The whole process in serve mode (main.rs): the first generate(), the    *)
(* server thread, the watcher and the loop, whose generate() works on the  *)
(* graph, while a browser holds a /watch stream and asks for a file.       *)

\* main() after the arguments are parsed: the sources are in place and
\* nothing is built.
InitProcess ==
    /\ NoLib /\ NoRequest
    /\ now = 2
    /\ fs = [p \in Paths |->
                IF p \in Dirs \cup SourceFiles
                THEN [mt |-> 1, data |-> [ver |-> 1, draft |-> FALSE]]
                ELSE Absent]
    /\ cells = [c \in CacheIds |-> None]
    /\ ran = {} /\ dirty = {} /\ startDirty = {} /\ gens = 0 /\ changes = 0
    /\ faulty = {}
    /\ started = 2
    /\ mpc = "start" /\ chan = << >> /\ expired = FALSE /\ srv = "none"
    /\ clients = [c \in {"c1"} |-> NoClient]
    /\ seen = [c \in {"c1"} |-> [named |-> FALSE, nested |-> FALSE]]
    /\ burst = 0 /\ passed = FALSE /\ late = FALSE /\ g = 0
    /\ pending = FALSE /\ dropped = FALSE
    /\ evq = << >> /\ wr = << >> /\ wrote = {}

\* main.rs:87-99: the first asset.generate(); then the channel is made and
\* the server thread spawned.
FirstBuild ==
    /\ mpc = "start"
    /\ Run
    /\ mpc' = "setup"
    /\ srv' = "listening"
    /\ UNCHANGED <<chan, expired, clients, watchGhost, httpVars, libVars, seen, fsVars>>

\* A loop that goes back to recv() without calling generate().  For
\* comparison with the one of the code below.
LoopBuild_skipped ==
    /\ mpc = "running"
    /\ mpc' = "recv"
    /\ LoopGhost
    /\ UNCHANGED <<chan, expired, srv, clients, passed, graphVars, httpVars, libVars, seen, fsVars>>

\* main.rs:141: the asset.generate() of the loop does its work and returns.
LoopBuild ==
    /\ mpc = "running"
    /\ Run
    /\ mpc' = "recv"
    /\ LoopGhost
    /\ UNCHANGED <<chan, expired, srv, clients, passed, httpVars, libVars, seen, fsVars>>

\* The browser asks the server for a page.
Arrive(method) ==
    /\ req.kind = "none"
    /\ req' = [kind |-> "file", method |-> method, path |-> <<"/", "a">>]
    /\ UNCHANGED <<resp, page404, libVars, graphVars, loopVars, clients, watchGhost, seen, fsVars>>

\* What the watcher reports: a saved source, a written output.
Reports == {SourceEvent, Modify(Abs(OutA))}

ProcessNext ==
    \/ FirstBuild
    \/ WatcherFails
    \/ WatcherStarts
    \/ changes = 0 /\ EditFile(PostTemplate, FALSE)
    \/ \E ev \in Reports : burst < MaxBroadcast /\ WatchEvent(ev)
    \/ MainRecv
    \/ Expire
    \/ DebounceRecv
    \/ DebounceTimeout
    \/ LoopBuild
    \/ ServerFails
    \/ ServerSends
    \/ srv = "listening" /\ Subscribe("c1")
    \/ srv = "listening" /\ ClientRecv("c1")
    \/ srv = "listening" /\ Arrive("GET")
    \/ srv = "listening" /\ RespondFile

ProcessSpec == InitProcess /\ [][ProcessNext]_vars

----------------------------------------------------------------------------
(* C5: debounce coalescing.                                                *)

\* The loop is idle: blocked in recv() on an empty channel.
Idle == mpc = "recv" /\ chan = << >>

\* C5: when five non-access events are delivered to the callback, all
\* before the deadline set by the first signal, the loop starts generate()
\* at most once, and exactly once by the time it is idle again.
C5_Coalesced ==
    (burst = 5 /\ ~late) => (g <= 1 /\ (Idle => g = 1))

\* Five events were delivered within the window, at least one of their
\* signals was dropped, and the loop is idle again after one generate().
C5_Witness == burst = 5 /\ ~late /\ dropped /\ Idle /\ g = 1

----------------------------------------------------------------------------
(* C6: no change is lost to coalescing.                                    *)

----------------------------------------------------------------------------
(* C7: path traversal rejection.                                           *)

\* A decoded string has a component that begins with '.' or contains a
\* backslash.
Traverses(str) ==
    \E i \in 1..Len(str) :
        \/ str[i] = "\\"
        \/ str[i] = "." /\ (i = 1 \/ str[i - 1] = "/")

\* The file a returned path reaches lies under the output root.
UnderRoot(path) == starts_with(Resolve(path), WorkDir \o OutputRoot)

\* The `path` parameters of a /watch request, decoded.
PathParams(r) ==
    {form_decode(r.query[i][2]) : i \in {j \in 1..Len(r.query) : r.query[j][1] = "path"}}

Answered == resp.status # 0

\* C7 as stated: every path fs_path returns lies under the output root;
\* a request whose decoded path has a component beginning with '.' or
\* containing a backslash is answered 404, and so is a /watch request with
\* such a `path` parameter.
C7_Stated ==
    Answered =>
        /\ \A p \in resp.paths : UnderRoot(p)
        /\ (req.kind = "file" /\ percent_decode(req.path).some
                /\ Traverses(percent_decode(req.path).v)) => resp.status = 404
        /\ (req.kind = "watch" /\ \E v \in PathParams(req) : Traverses(v))
              => resp.status = 404

\* C7, amended: every path fs_path returns lies under the output root; a
\* request whose decoded path has a component beginning with '.' or
\* containing a backslash is answered 404; a /watch request with such a
\* `path` parameter opens no stream: it is answered 404, or 400 when a
\* query key other than `path` comes first.
C7_NoTraversal ==
    Answered =>
        /\ \A p \in resp.paths : UnderRoot(p)
        /\ (req.kind = "file" /\ percent_decode(req.path).some
                /\ Traverses(percent_decode(req.path).v)) => resp.status = 404
        /\ (req.kind = "watch" /\ \E v \in PathParams(req) : Traverses(v))
              => /\ resp.status \in {400, 404}
                 /\ (\A i \in 1..Len(req.query) : req.query[i][1] = "path")
                       => resp.status = 404

\* A request for a percent-encoded ".." has been answered 404.
C7_Witness ==
    /\ req.kind = "file" /\ resp.status = 404
    /\ \E i \in 1..(Len(req.path) - 1) : req.path[i] = "%2e" /\ req.path[i + 1] = "%2e"
    /\ Traverses(percent_decode(req.path).v)

----------------------------------------------------------------------------
(* C8: live-reload targeting.                                              *)

\* The task of stream c has nothing left to receive.
Caught(c) == clients[c].st = "open" /\ clients[c].q = << >> /\ ~clients[c].lagged

\* A client that is still connected and whose stream was open when an
\* event naming its watched file was broadcast is sent a reload once its
\* task has received that event.
Woken(c) ==
    (seen[c].named /\ clients[c].conn) => (clients[c].reloads = 1 \/ ~Caught(c))

\* C8 as stated: a client is sent a reload when an event naming its watched
\* file is broadcast, and only then.
C8_Stated ==
    \A c \in Clients :
        /\ Woken(c)
        /\ clients[c].reloads > 0 => seen[c].named

\* C8, amended: a client is sent a reload when an event naming its watched
\* file is broadcast; it is sent one otherwise only when its receiver
\* lagged behind the channel, or when an event named a path that ends with
\* the components of its watched path.
C8_Targeted ==
    \A c \in Clients :
        /\ Woken(c)
        /\ clients[c].reloads > 0 =>
              (seen[c].named \/ clients[c].lagged \/ seen[c].nested)

\* An event naming OutA was broadcast to a stream watching OutA and to one
\* watching OutB: the first was sent a reload, the second received the
\* event and was sent none.
C8_Witness ==
    /\ clients["c1"].reloads = 1 /\ seen["c1"].named /\ ~clients["c1"].lagged
    /\ Caught("c3") /\ clients["c3"].reloads = 0 /\ ~seen["c3"].named
    /\ burst >= 1

----------------------------------------------------------------------------
(* C9: the /watch clients are independent.                                 *)

\* C9: every connected client whose stream was open when an event naming
\* its watched file was broadcast is sent a reload once its task has
\* received the event; a client is sent a reload only for its own events
\* (or its own lag); and a step other than a broadcast changes the stream
\* of one client only.
C9_Independent ==
    /\ [](\A c \in Clients :
            /\ Woken(c)
            /\ clients[c].reloads > 0 =>
                  (seen[c].named \/ clients[c].lagged \/ seen[c].nested))
    /\ [][burst' = burst =>
            \A c, d \in Clients :
                c # d => (clients'[c] = clients[c] \/ clients'[d] = clients[d])]_vars

\* Both clients watching OutA were sent a reload, while the client
\* watching OutB, which had disconnected, was sent none.
C9_Witness ==
    /\ clients["c1"].reloads = 1 /\ clients["c2"].reloads = 1
    /\ clients["c3"].st = "open" /\ ~clients["c3"].conn /\ clients["c3"].reloads = 0

----------------------------------------------------------------------------
(* C10: live reload happens after the rebuild.                             *)

\* C10: no reload is sent to a client while generate() is still writing a
\* file the client watches.
C10_ReloadAfterWrite ==
    [][\A c \in DOMAIN clients :
          clients'[c].reloads > clients[c].reloads => wr \notin clients[c].paths]_vars

----------------------------------------------------------------------------
(* C11: request path resolution.                                           *)

\* The path a file request spells under the output root, when every part of
\* it is accepted.
Spelled(r) == push_all(OutputRoot, split(percent_decode(trim_start(r.path)).v, << >>))
Accepted(r) ==
    /\ percent_decode(trim_start(r.path)).some
    /\ \A i \in 1..Len(split(percent_decode(trim_start(r.path)).v, << >>)) :
          ~rejected(split(percent_decode(trim_start(r.path)).v, << >>)[i])

\* What the rules of resolution give for path P: the file itself, index.html
\* inside a directory, P.html for a missing path without extension.
Resolution(P) ==
    LET index == Append(components(P), IndexHtml)
        html == [components(P) EXCEPT ![Len(components(P))] = @ \o <<".", "html">>]
    IN CASE stat(P) = "file" -> {P}
         [] stat(P) = "dir" -> IF stat(index) = "file" THEN {index} ELSE {}
         [] stat(P) = "NotFound" /\ ~has_extension(P) ->
                IF stat(html) = "file" THEN {html} ELSE {}
         [] OTHER -> {}

\* C11: a GET or HEAD request for a path naming an existing regular file is
\* answered with that file; for a directory, with index.html inside it; for a
\* path that is not found and has no extension, with the path plus .html; when
\* none of these exists the status is 404, and every 404 carries 404.html of
\* the output root as body, or an empty body when that file cannot be read.
C11_Resolution ==
    (req.kind = "file" /\ req.method \in {"GET", "HEAD"} /\ resp.status # 0) =>
        LET found == IF Accepted(req) THEN Resolution(Spelled(req)) ELSE {}
        IN IF found # {}
           THEN resp = [status |-> 200, paths |-> found,
                        body |-> IF req.method = "GET" THEN "file" ELSE "empty"]
           ELSE resp = [status |-> 404, paths |-> {},
                        body |-> IF page404 THEN "404.html" ELSE "empty"]

\* An extensionless path that is not found was answered with its .html file.
C11_Witness ==
    /\ req.kind = "file" /\ req.method = "GET" /\ req.path = <<"/", "a", "a">>
    /\ resp.status = 200
    /\ resp.paths = {OutputRoot \o << <<"a", "a", ".", "html">> >>}

----------------------------------------------------------------------------
(* C12: fatal watcher and server errors end the process.                   *)

\* C12: an error of the server thread is sent to the loop; the loop returns
\* it from main() in whichever receive it gets it (recv or the debounce
\* loop); after main() has returned no generate() starts; main() does return
\* once the server has failed; and when the watcher cannot be set up main()
\* returns before the loop is entered, having received and rebuilt nothing.
C12_Fatal ==
    /\ [][(chan # << >> /\ Head(chan) = "err" /\ chan' = Tail(chan))
              => mpc' = "exited"]_vars
    /\ [][mpc = "exited" => (mpc' = "exited" /\ g' = g)]_vars
    /\ [][(mpc = "setup" /\ mpc' = "exited") => (g' = 0 /\ chan' = chan)]_vars
    /\ (srv = "failed") ~> (mpc = "exited")

\* main() has returned the server's error after an earlier burst of events
\* was rebuilt.
C12_Witness ==
    mpc = "exited" /\ srv = "sent" /\ chan = << >> /\ g = 1 /\ burst >= 2

----------------------------------------------------------------------------
(* C13: failure isolation in the orchestrator.                             *)

\* The output paths of the write nodes inside asset a.
RECURSIVE WritePaths(_)
WritePaths(a) ==
    CASE a.k = "ModifiesPath" -> {a.path}
      [] a.k \in {"Map", "Cache", "Flatten"} -> WritePaths(a.asset)
      [] a.k = "All" -> UNION {WritePaths(a.assets[i]) : i \in 1..Len(a.assets)}
      [] OTHER -> {}

\* The sub-graphs under the root All, by the Cache that holds each.
RootChildren == {<<"html", "">>, <<"raw", "">>}

----------------------------------------------------------------------------
(* C14: the fallback templater.                                            *)

TemplaterDir == <<"templater_dir", "">>
IsFallback(cell) == cell.some /\ cell.out = Constant(FALLBACK_TEMPLATER)

----------------------------------------------------------------------------
(* C15: a failing minifier falls back to its input.                        *)

\* C15: a call of html, css or js returns a text in every case; when the
\* tool could not be spawned, a pipe read or write failed, waiting failed or
\* the exit status was not zero, the text returned is the input, unchanged;
\* otherwise it is what the tool wrote.
C15_Fallback ==
    mini.pc = "returned" =>
        /\ mini.ret \in Seq({"a", " ", "e"})
        /\ ~mini.res.ok => mini.ret = mini.src
        /\ mini.res.ok => mini.ret = mini.out

\* A tool that wrote something and then exited with a non-zero status: the
\* input, which is not what it wrote, was returned.
C15_Witness ==
    /\ mini.pc = "returned" /\ mini.res = Err(<<"status">>)
    /\ mini.out # mini.src /\ mini.src # << >> /\ mini.ret = mini.src

----------------------------------------------------------------------------
(* C16: what apply() writes for an accepted template.                      *)

\* What the substitution is stated to write for a source: a doubled
\* backslash becomes one; a backslash, an opening brace, a name and the next
\* closing brace become the value bound to the name, or stay as they are when
\* the name is not bound; every other character is copied.
RECURSIVE Expansion(_, _)
Expansion(src, vs) ==
    IF src = << >> THEN << >>
    ELSE IF Len(src) >= 2 /\ src[1] = "\\" /\ src[2] = "\\"
    THEN <<"\\">> \o Expansion(Slice(src, 2, Len(src)), vs)
    ELSE IF Len(src) >= 2 /\ src[1] = "\\" /\ src[2] = "{" /\ memchr("}", src) # NotFound
    THEN LET close == memchr("}", src)
             value == find(vs, Slice(src, 2, close))
         IN  (IF value # << >> THEN value[1] ELSE Slice(src, 0, close + 1))
                 \o Expansion(Slice(src, close + 1, Len(src)), vs)
    ELSE <<src[1]>> \o Expansion(Tail(src), vs)

\* C16: for every source that Template::new accepts, apply() returns, and
\* what it wrote is the source with each doubled backslash replaced by one
\* backslash, each substitution whose name is bound replaced by the value,
\* each substitution whose name is not bound copied unchanged, and the other
\* text copied in order.
C16_Substitution ==
    /\ tmpl.pc # "panicked"
    /\ tmpl.pc = "applied" => tmpl.applied.v = Expansion(tmpl.origin, tmpl.vars)

----------------------------------------------------------------------------
(* C17: the decision rule of a write node.                                 *)

\* The comparisons made by the write nodes in the generate() that a step
\* performs: <<"compared", path, inner asset's modified(), output's mtime>>.
Compared == Did("compared", ran')

\* C17 as stated: the generate() of a write node invokes the inner
\* generate() only when the inner asset's modified() or the executable's
\* build time is strictly newer than the output's mtime (Never when the
\* output is absent), and returns without invoking it in every other case.
C17_Stated ==
    [][IsGenerate =>
        \A w \in Compared :
            <<"inner", w[2]>> \in ran' <=> (w[3] > w[4] \/ EXE_MODIFIED > w[4])]_vars

\* C17, amended: the generate() of a write node invokes the inner generate()
\* exactly when the inner asset's modified() or the executable's build time
\* is newer than or equal to the output's mtime (Never when the output is
\* absent); it returns without invoking it when both are strictly older.
C17_Decision ==
    [][IsGenerate =>
        /\ \A n \in Did("node", ran') : \E w \in Compared : w[2] = n[2]
        /\ \A w \in Compared :
              /\ w[4] = Modified_path(fs, w[2])
              /\ <<"inner", w[2]>> \in ran' <=> (w[3] >= w[4] \/ EXE_MODIFIED >= w[4])]_vars

\* One generate() in which a write node found its inner asset exactly as old
\* as its output and invoked it, and another node found its output strictly
\* newer and returned without invoking it.
C17_Witness ==
    /\ gens >= 2
    /\ \E w \in Did("compared", ran) :
          w[3] = w[4] /\ EXE_MODIFIED < w[4] /\ <<"inner", w[2]>> \in ran
    /\ \E w \in Did("compared", ran) :
          w[3] < w[4] /\ EXE_MODIFIED < w[4] /\ <<"inner", w[2]>> \notin ran

----------------------------------------------------------------------------
(* C18: what a Cache holds when its generate() returns.                    *)

\* The child of the Cache over leaf p.
ChildOf(p) ==
    IF p = PostTemplate THEN post_template.asset
    ELSE Map(TextFile(p), Fn("read_post", CHOOSE q \in Posts : PostSrc(q) = p))

\* What the child of the Cache over leaf p yields when the step is over.
CurrentAnswer(p) == generate(ChildOf(p), [fs |-> fs', cells |-> cells', ran |-> {}]).out

\* Output x of the Cache over leaf p is the output y: a compiled template
\* or a post, each holding the Result of reading the file.
Agree(p, x, y) ==
    LET a == IF p = PostTemplate THEN x ELSE x.content
        b == IF p = PostTemplate THEN y ELSE y.content
    IN  a.ok = b.ok /\ (a.ok => a.v = b.v) /\ (~a.ok => a.v = b.v)

\* The step calls generate() of the Cache over leaf p.
Generated(p) == IsGenerate /\ <<"gen", Label(CellOf(p))>> \in ran'

\* The node of the cell was built anew in the step, its cell empty: the
\* posts directory was listed again.
Rebuilt(c) == c[1] = "post" /\ <<"miss", "html">> \in ran'

----------------------------------------------------------------------------
(* C19: an output is at least as new as what it was written from.          *)

\* The caches over the files a post's page is written from: the post, the
\* post template and the includes of the templater.  The time of a cell is
\* the mtime its file had when it was read.
InputCells(q) == {PostId(q), <<"post_template", "">>} \cup {IncludeId(i) : i \in Includes}

\* C19: when a generate() has written an output, the output's mtime is at
\* least the mtime each input read for that write had when it was read: for
\* a post's page, the post, the post template and the includes; for a raw
\* copy, the file copied.  Nothing but a write of generate() changes an
\* output, so this stays true of every output between the calls.
C19_OutputNewer ==
    /\ [][IsGenerate =>
            /\ \A q \in Posts : <<"write", PostOut(q)>> \in ran' =>
                  /\ Exists(fs', PostOut(q))
                  /\ cells'[PostId(q)].some /\ cells'[<<"post_template", "">>].some
                  /\ \A c \in InputCells(q) :
                        cells'[c].some => fs'[PostOut(q)].mt >= cells'[c].at
            /\ \A r \in RawFiles : <<"write", RawOut(r)>> \in ran' =>
                  Exists(fs', RawOut(r)) /\ fs'[RawOut(r)].mt >= fs'[RawSrc(r)].mt
            /\ \A o \in Outputs : <<"write", o>> \notin ran' => fs'[o] = fs[o]]_vars
    /\ [][~IsGenerate => \A o \in Outputs : fs'[o] = fs[o]]_vars

\* A later generate() wrote a post's page from a template it had just read,
\* whose mtime is that of the write, and from the post as it was read by an
\* earlier call, which is older than the page.
C19_Witness ==
    /\ gens >= 2
    /\ \E q \in Posts :
          /\ <<"write", PostOut(q)>> \in ran
          /\ <<"read", PostTemplate>> \in ran
          /\ <<"read", PostSrc(q)>> \notin ran
          /\ fs[PostOut(q)].mt = cells[<<"post_template", "">>].at
          /\ fs[PostOut(q)].mt > cells[PostId(q)].at

----------------------------------------------------------------------------
(* C20: one reload per stream.                                             *)

\* The step is a turn of the task of stream c that receives a matching
\* event.
RecvMatching(c) ==
    /\ clients[c].st = "open" /\ ~clients[c].lagged
    /\ clients[c].q # << >> /\ matches(clients[c].paths, Head(clients[c].q))
    /\ clients'[c].q = Tail(clients[c].q)

\* C20: a /watch stream is sent at most one reload event; on the first
\* matching event its task writes the event and ends, and a task that has
\* ended writes nothing more; when the client has disconnected before, the
\* write fails, the task ends all the same and logs no error.
C20_OneReload ==
    /\ [](\A c \in Clients :
            /\ clients[c].reloads <= 1
            /\ clients[c].reloads = 1 => clients[c].st = "done"
            /\ ~clients[c].logged)
    /\ [][\A c \in Clients : RecvMatching(c) =>
            /\ clients'[c].st = "done"
            /\ clients'[c].reloads = IF clients[c].conn THEN 1 ELSE 0]_vars
    /\ [][\A c \in Clients : clients[c].st = "done" => clients'[c] = clients[c]]_vars

\* Two events naming the watched output were reported: one stream was sent
\* one reload and ended; another, whose client had disconnected, ended
\* without a reload and without an error logged.
C20_Witness ==
    /\ burst >= 2
    /\ clients["c1"].st = "done" /\ clients["c1"].reloads = 1 /\ seen["c1"].named
    /\ clients["c2"].st = "done" /\ ~clients["c2"].conn /\ clients["c2"].reloads = 0
    /\ seen["c2"].named /\ ~clients["c2"].lagged /\ ~clients["c2"].logged

----------------------------------------------------------------------------
(* C21: access events are filtered.                                        *)

\* The events the watcher hands to the callback while the site is rebuilt
\* and served: a saved source, the modification and the closing of an
\* output being written, and an error of the watcher.
Reported ==
    {SourceEvent, [kind |-> "error", paths |-> {}]}
        \cup {Modify(Abs(o)) : o \in Rewritten}
        \cup {[kind |-> "access", paths |-> {Abs(o)}] : o \in Rewritten}

\* C21: a call of the watcher callback with an access event sends no
\* rebuild signal and broadcasts nothing; a call with any other event the
\* watcher received leaves one signal in the channel (sent now, or already
\* there) and puts the event, with its paths, last in the queue of every
\* open stream of the server.
C21_Filtered ==
    [][\A ev \in Reported : CallbackStep(ev) =>
          IF ev.kind = "access"
          THEN chan' = chan /\ clients' = clients
          ELSE ev.kind # "error" =>
                /\ chan' = <<"ok">>
                /\ chan = << >> \/ chan' = chan
                /\ \A c \in DOMAIN clients :
                      IF clients[c].st = "open"
                      THEN /\ clients'[c].q # << >>
                           /\ clients'[c].q[Len(clients'[c].q)] = ev
                      ELSE clients'[c] = clients[c]]_vars

\* A generate() wrote an output while a stream was open and has returned;
\* the loop took the signal; the watcher has delivered every event, the
\* access event of the file's closing included: the stream holds the
\* modification only and the channel is empty.
C21_Witness ==
    /\ g = 1 /\ mpc = "debounce" /\ chan = << >> /\ evq = << >> /\ wr = << >>
    /\ clients["c1"].st = "open"
    /\ clients["c1"].q = <<Modify(Abs(OutA))>>

----------------------------------------------------------------------------
(* C22: the debounce window.                                               *)

\* C22 as stated: the window opened by the first signal is always left,
\* however many signals follow: generate() is not postponed for ever.
C22_Stated == (mpc = "debounce") ~> (mpc # "debounce")

\* C22, amended: the deadline is set once, by the first signal, and no
\* later signal moves it; the loop leaves the window only into one
\* generate() (or out of main() on an error), and only on a call of
\* recv_deadline that finds the channel empty after the deadline; a signal
\* that is in the channel when recv_deadline is called is taken even after
\* the deadline, so generate() starts once the channel is found empty after
\* the deadline, and waits for as long as every call finds a signal.
C22_Window ==
    /\ [][(mpc = "debounce" /\ mpc' = "debounce" /\ expired) => expired']_vars
    /\ [][Starts => (mpc = "debounce" /\ expired /\ chan = << >>)]_vars
    /\ [][(mpc = "debounce" /\ mpc' # "debounce") => mpc' \in {"running", "exited"}]_vars
    /\ [][(mpc = "debounce" /\ expired /\ chan # << >> /\ mpc' # mpc) =>
            (chan' = << >> /\ mpc' \in {"debounce", "exited"})]_vars
    /\ (mpc = "debounce") ~> (mpc # "debounce" \/ (expired /\ chan # << >>))

\* Signals that came after the deadline were drained, and then the one
\* generate() of the window started.
C22_Witness ==
    /\ mpc = "running" /\ g = 1 /\ chan = << >>
    /\ late /\ dropped /\ burst >= 3

----------------------------------------------------------------------------
(* C23: the asset graph belongs to the main thread.                        *)

\* The step changes a cell, the record of what ran, or an output file.
TouchesGraph ==
    \/ cells' # cells
    \/ ran' # ran
    \/ \E o \in Outputs : fs'[o] # fs[o]

\* The step is one whole asset.generate() of the main thread.
MainGenerates ==
    /\ mpc \in {"start", "running"}
    /\ mpc' \in {"setup", "recv"}
    /\ cells' = generate(root, Here).st.cells
    /\ fs' = generate(root, Here).st.fs

\* C23: the cells of the graph, the record of what ran and the output
\* files change only in a step that is one whole generate() of the main
\* thread; the watcher callback, the server thread and the streams leave
\* them alone; and the main thread leaves a generate() call only by
\* finishing it, so that a second call starts after the first has returned.
C23_MainOnly ==
    /\ [][TouchesGraph => MainGenerates]_vars
    /\ [][(chan' # chan \/ clients' # clients \/ req' # req \/ resp' # resp \/ srv' # srv)
            => (mpc = "start" \/ ~TouchesGraph)]_vars
    /\ [][(mpc \in {"start", "running"} /\ mpc' # mpc) => MainGenerates]_vars
    /\ [][Starts => mpc = "debounce"]_vars

\* The loop has rebuilt after an edit while a stream was open with an
\* event waiting in it and a request had been answered.
C23_Witness ==
    /\ mpc = "recv" /\ g >= 1 /\ gens = 2 /\ changes >= 1
    /\ Did("inner", ran) # {}
    /\ clients["c1"].st = "open" /\ clients["c1"].q # << >>
    /\ resp.status # 0

----------------------------------------------------------------------------
(* C24: the watcher callback never blocks.                                 *)

\* The watcher is running and may report one more event.
Watching == mpc \in {"recv", "debounce", "running"} /\ burst < MaxBroadcast

\* The step is a call of the callback with a change event.
Called == burst' # burst

\* C24: whenever the watcher reports a change, the callback can run to its
\* end in that state, whatever the main thread is doing and however full
\* the channel or a stream is; its call leaves the main thread where it
\* was, adds the signal when the channel has room and drops it when it is
\* full, and hands the event to every open stream, a full one losing its
\* oldest event; and the rebuild channel never holds more than one message.
C24_NeverBlocks ==
    /\ [](Watching => \A ev \in Reports : ENABLED WatchEvent(ev))
    /\ [][Called => /\ mpc' = mpc
                    /\ chan' = (IF Len(chan) < ChannelCap THEN Append(chan, "ok") ELSE chan)
                    /\ \E ev \in Reports : clients' = update(clients, ev)
                    /\ \A c \in DOMAIN clients : Len(clients'[c].q) <= EventsCap]_vars
    /\ [](Len(chan) <= ChannelCap)

\* The callback has returned although the main thread is inside generate(),
\* the channel was full at one call and the stream, never read, overflowed.
C24_Witness ==
    /\ mpc = "running" /\ dropped /\ chan # << >>
    /\ clients["c1"].st = "open" /\ clients["c1"].lagged
    /\ burst = MaxBroadcast

----------------------------------------------------------------------------
(* C25: the build loop and the server do not block each other.             *)

\* The step is one of the server's: it answers, opens or advances a stream.
ServerStep == ~Called /\ (clients' # clients \/ resp' # resp \/ req' # req)

\* The stream has an event to look at.
Waiting == clients["c1"].st = "open" /\ (clients["c1"].lagged \/ clients["c1"].q # << >>)

\* C25: with the main thread inside generate(), a listening server has an
\* answer for the request it holds and the open stream can take the event
\* that waits for it; the server's steps leave the main thread, its channel
\* and the graph as they were; and in every state of the streams and the
\* request the main thread can take a signal that is in the channel and
\* leave an expired window with an empty channel for generate(), its steps
\* leaving the streams and the request alone.
C25_Independent ==
    /\ []((mpc = "running" /\ srv = "listening" /\ req.kind = "file" /\ resp.status = 0)
            => respond_file(req).status # 0)
    /\ []((mpc = "running" /\ srv = "listening" /\ Waiting) => ENABLED ClientRecv("c1"))
    /\ [][ServerStep => (UNCHANGED <<mpc, chan, expired>> /\ ~TouchesGraph)]_vars
    /\ []((mpc = "recv" /\ chan # << >>) => ENABLED MainRecv)
    /\ []((mpc = "debounce" /\ expired /\ chan = << >>) => ENABLED DebounceTimeout)
    /\ [][mpc' # mpc => UNCHANGED <<clients, req, resp>>]_vars

\* Inside the first generate() of the loop, with a signal that came during
\* it waiting in the channel: the request is answered and the stream has
\* sent its reload.
C25_Witness ==
    /\ mpc = "running" /\ g = 1 /\ srv = "listening"
    /\ burst = 2 /\ chan # << >>
    /\ resp.status = 200
    /\ clients["c1"].st = "done" /\ clients["c1"].reloads = 1

----------------------------------------------------------------------------
(* C26: asking a Flatten for its time builds nothing.                      *)

\* The Flatten nodes of the site: the setup, the blog, the raw files, the
\* templater.
Flattens ==
    <<setup_asset(dynamic_config), blog_asset(dynamic_config), raw_asset,
      templater_asset(dynamic_config)>>

\* What a query may do: enter a cache, fill it, list a directory, construct
\* the setup asset.
QueryWork == {"gen", "miss", "list", "setup", "asked", "called"}

\* C26: in every state of the files and the cells, modified() of a Flatten
\* is the later of its outer asset's time and the time of the graph that
\* the outer asset generates; the call, and modified() of the root, leave
\* every file as it was, and do nothing but enter and fill the caches of
\* outer assets, list their directories and construct the asset of the
\* setup: no write node is entered, no file read, written or copied.
C26_QueryOnly ==
    /\ \A i \in DOMAIN Flattens :
          LET f == Flattens[i]
              q == modified(f, Here)
              outer == modified(f.asset, Here)
              inner == generate(f.asset, outer.st)
          IN /\ q.m = Max(outer.m, modified(inner.out, inner.st).m)
             /\ q.st.fs = fs
             /\ \A w \in q.st.ran : w[1] \in QueryWork
    /\ modified(root, Here).st.fs = fs
    /\ \A w \in modified(root, Here).st.ran : w[1] \in QueryWork

\* A query of the root lists the directories anew and finds a graph that a
\* generate() in the same state would write files for.
C26_Witness ==
    /\ gens >= 1
    /\ Did("list", modified(root, Here).st.ran) # {}
    /\ Did("write", generate(root, Here).st.ran) # {}

----------------------------------------------------------------------------
(* C27: the All combinator.                                                *)

\* The children of the root.
Kids == root.asset.assets

\* The state after the first i children were generated one after another,
\* from the first.
RECURSIVE InOrder(_, _, _)
InOrder(as, i, st) == IF i = 0 THEN st ELSE generate(as[i], InOrder(as, i - 1, st)).st

\* The latest of the children's times.
Latest(as, st) ==
    LET times == {modified(as[i], st).m : i \in DOMAIN as} \cup {Never}
    IN CHOOSE m \in times : \A n \in times : n <= m

\* C27: in every state, modified() of the root's All is the latest of its
\* children's times, and Never for an All without children; generate()
\* returns one output per child, output i being what child i returns when
\* it is generated after children 1..i-1 and before the others, and leaves
\* the state that generating them once each in that order leaves; the
\* first child of the root is the minification setup, and in every build
\* its closure found that nothing had run before it.
C27_All ==
    /\ All_modified(Kids, 1, Here, Never).m = Latest(Kids, Here)
    /\ All_modified(<< >>, 1, Here, Never).m = Never
    /\ All_generate(<< >>, 1, Here, << >>).out = << >>
    /\ LET r == All_generate(Kids, 1, Here, << >>)
       IN /\ Len(r.out) = Len(Kids)
          /\ \A i \in DOMAIN Kids :
                r.out[i] = generate(Kids[i], InOrder(Kids, i - 1, Here)).out
          /\ r.st = InOrder(Kids, Len(Kids), Here)
    /\ Kids[1] = setup_asset(dynamic_config)
    /\ gens >= 1 => (<<"setup", TRUE>> \in ran /\ <<"setup", FALSE>> \notin ran)

\* A build that ran the setup and then wrote a post and a raw file.
C27_Witness ==
    /\ <<"setup", TRUE>> \in ran
    /\ \E q \in Posts : <<"write", PostOut(q)>> \in ran
    /\ \E r \in RawFiles : <<"write", RawOut(r)>> \in ran

----------------------------------------------------------------------------
(* C28: a child is asked for its time before it is generated.              *)

\* The queries and the calls of the children recorded by the build that
\* the step makes.
Asked == Did("asked", ran')
Invocations == Did("called", ran')

\* C28: in every build, each call of the generate() of the child of a Cache
\* or a write node comes after a query of that child's modified() in the
\* same call of the node, no other call of that child in between; every
\* cache entered and every write node entered has asked its child; and a
\* child is generated only by a node that missed or found its output stale.
C28_QueryFirst ==
    [][IsGenerate =>
        /\ \A c \in Invocations :
              \E q \in Asked :
                 /\ q[2] = c[2] /\ q[3] < c[3]
                 /\ ~\E d \in Invocations : d[2] = c[2] /\ q[3] < d[3] /\ d[3] < c[3]
        /\ \A w \in Did("gen", ran') \cup Did("node", ran') : \E q \in Asked : q[2] = w[2]
        /\ \A w \in Did("miss", ran') \cup Did("inner", ran') :
              \E c \in Invocations : c[2] = w[2]
        /\ \A c \in Invocations :
              \E w \in Did("miss", ran') \cup Did("inner", ran') : c[2] = w[2]]_vars

\* A build in which one cache asked and did not generate its child, another
\* asked and generated it, and a write node asked and generated its child.
C28_Witness ==
    /\ \E q \in Did("asked", ran) : ~\E c \in Did("called", ran) : c[2] = q[2]
    /\ \E c \in Did("called", ran) : <<"miss", c[2]>> \in ran
    /\ \E c \in Did("called", ran) : <<"inner", c[2]>> \in ran /\ <<"write", c[2]>> \in ran

----------------------------------------------------------------------------
(* C29: the Dynamic config makes a new process rebuild.                    *)

\* The latest time of the inputs of p's page other than the config.
SourcesTime(p) ==
    LET times == {fs[PostSrc(p)].mt, fs[PostTemplate].mt, fs[IncludeDir].mt}
                    \cup {fs[IncludeSrc(i)].mt : i \in Includes}
    IN CHOOSE m \in times : \A n \in times : n <= m

\* The comparison w of p's write node came out stale on account of the
\* config alone: the sources and the executable are older than the output.
OnConfigAlone(p, w) ==
    /\ w[2] = PostOut(p)
    /\ w[3] >= w[4]
    /\ SourcesTime(p) < w[4]
    /\ EXE_MODIFIED < w[4]

\* The first generate() of a process regenerates every page whose output is
\* older than the start of the process.
FirstBuildRegenerates ==
    [][(IsGenerate /\ gens = 0) =>
          \A p \in Posts : \A w \in Compared :
             (w[2] = PostOut(p) /\ w[4] < started) =>
                /\ w[3] >= started
                /\ <<"inner", PostOut(p)>> \in ran'
                /\ <<"write", PostOut(p)>> \in ran'
                /\ fs'[PostOut(p)].mt = now]_vars

----------------------------------------------------------------------------
(* C30: a cache over Volatile.                                             *)

\* The cell of the raw walk holds a value stamped with the present reading
\* of the clock, or a later one.
WalkStored == cells[<<"raw", "">>].some /\ cells[<<"raw", "">>].at >= now

\* C30 as stated: every generate() walks the raw directory again.
C30_Stated ==
    [][IsGenerate => (<<"miss", "raw">> \in ran' /\ <<"list", RawDir>> \in ran')]_vars

\* C30: a generate() walks the raw directory again, and stores the new
\* graph with the clock's reading, exactly when the cell is empty or its
\* stamp is earlier than the clock's reading; when the stamp equals the
\* reading the stored graph is returned, the cell is left as it was and
\* the directory is not walked; and a query of the raw Flatten walks it
\* under the same condition.
C30_Volatile ==
    /\ [][IsGenerate =>
            /\ <<"gen", "raw">> \in ran'
            /\ ~WalkStored => /\ <<"miss", "raw">> \in ran'
                               /\ <<"list", RawDir>> \in ran'
                               /\ cells'[<<"raw", "">>].at = now
            /\ WalkStored => /\ <<"miss", "raw">> \notin ran'
                              /\ <<"list", RawDir>> \notin ran'
                              /\ cells'[<<"raw", "">>] = cells[<<"raw", "">>]]_vars
    /\ [](WalkStored <=> <<"miss", "raw">> \notin modified(raw_asset, Here).st.ran)

\* Nothing but the clock has moved since the last build, and the build
\* walked the raw directory again.
C30_Witness ==
    /\ gens = 2 /\ startDirty = {"clock"} /\ dirty = {}
    /\ <<"miss", "raw">> \in ran /\ <<"list", RawDir>> \in ran
    /\ cells[<<"raw", "">>].at = now

----------------------------------------------------------------------------
(* Watch mode with a generate() that takes time (main.rs 85-142): its      *)
(* reads come first, its writes follow one by one, and the user may save a *)
(* source or the clock may advance in between.  The watcher is registered  *)
(* after the first generate() has returned; once it is, every change under *)
(* the project directory, the output directory included, calls the         *)
(* callback, which signals the loop.                                       *)

\* The writes a generate() has decided on, in the state it leaves.
PendingWrites(st) ==
    LET W == {o \in Outputs : <<"write", o>> \in st.ran}
        order == SeqOf(W)
    IN [i \in 1..Len(order) |-> [path |-> order[i], data |-> st.fs[order[i]].data]]

\* watcher.watch(".") has returned: changes reach the callback.
Registered == mpc \in {"recv", "debounce", "running", "writing"}

\* asset.generate(), first part: the write nodes compare the times, the
\* sources are read, the cells are filled.
GenerateReads ==
    LET r == generate(root, [fs |-> fs, cells |-> cells, ran |-> {}])
    IN /\ mpc \in {"start", "running"}
       /\ mpc' = IF mpc = "start" THEN "first" ELSE "writing"
       /\ cells' = r.st.cells
       /\ ran' = r.st.ran
       /\ wr' = PendingWrites(r.st)
       /\ wrote' = {}
       /\ startDirty' = dirty
       /\ dirty' = {}
       /\ gens' = IF gens < 2 THEN gens + 1 ELSE gens
       /\ UNCHANGED <<now, fs, changes, faulty, started, chan, expired, srv, clients, watchGhost, httpVars, libVars, seen, evq>>

\* util::write_file of the next output: its mtime is the time of the write.
\* The watcher, when registered, reports it.
WriteOutput ==
    /\ mpc \in {"first", "writing"}
    /\ wr # << >>
    /\ fs' = [fs EXCEPT ![Head(wr).path] = [mt |-> now, data |-> Head(wr).data]]
    /\ wr' = Tail(wr)
    /\ wrote' = wrote \cup {Head(wr).path}
    /\ chan' = IF Registered THEN try_send(chan, "ok") ELSE chan
    /\ UNCHANGED <<now, cells, ran, dirty, startDirty, gens, changes, faulty, started>>
    /\ UNCHANGED <<mpc, expired, srv, clients, watchGhost, httpVars, libVars, seen, evq>>

\* asset.generate() returns: main() goes on to create the watcher, the loop
\* goes back to recv().
GenerateEnds ==
    /\ mpc \in {"first", "writing"}
    /\ wr = << >>
    /\ mpc' = IF mpc = "first" THEN "setup" ELSE "recv"
    /\ UNCHANGED <<chan, expired, srv, clients, watchGhost, graphVars, httpVars, libVars, seen, fsVars>>

\* The user saves source file p.  The watcher, when registered, reports it.
SourceEdit(p) ==
    /\ changes < MaxChanges
    /\ now < MaxTime
    /\ Exists(fs, p)
    /\ fs' = [fs EXCEPT ![p] = [mt |-> now, data |-> [ver |-> changes + 2, draft |-> FALSE]]]
    /\ changes' = changes + 1
    /\ dirty' = dirty \cup {p}
    /\ chan' = IF Registered THEN try_send(chan, "ok") ELSE chan
    /\ UNCHANGED <<now, cells, ran, startDirty, gens, faulty, started>>
    /\ UNCHANGED <<mpc, expired, srv, clients, watchGhost, httpVars, libVars, seen, fsVars>>

RebuildNext ==
    \/ GenerateReads
    \/ WriteOutput
    \/ GenerateEnds
    \/ WatcherStarts
    \/ SourceEdit(PostSrc("a"))
    \/ Tick
    \/ MainRecv
    \/ Expire
    \/ DebounceRecv
    \/ DebounceTimeout

RebuildSpec == InitProcess /\ [][RebuildNext]_vars

\* The main thread runs and time passes.  GenerateReads is enabled exactly
\* when main() stands before a generate() and always leaves that place, so
\* its weak fairness is that main() does not stand there for ever.
FairRebuildSpec ==
    /\ RebuildSpec
    /\ []<>(mpc \notin {"start", "running"})
    /\ WF_vars(WriteOutput) /\ WF_vars(GenerateEnds)
    /\ WF_vars(WatcherStarts) /\ WF_vars(Tick)
    /\ WF_vars(MainRecv) /\ WF_vars(Expire) /\ WF_vars(DebounceRecv)
    /\ WF_vars(DebounceTimeout)

----------------------------------------------------------------------------
(* C31: a change of the source icon and the two write nodes.               *)

\* The source icon is newer than both of its outputs, which exist.
IconNewer ==
    /\ Exists(fs, AppleTouchIcon) /\ Exists(fs, Favicon)
    /\ fs[IconSrc].mt > fs[AppleTouchIcon].mt
    /\ fs[IconSrc].mt > fs[Favicon].mt

\* C31: when the source icon is newer than both outputs, the next
\* generate() encodes the icons and writes both outputs.
C31_Propagates ==
    [][(IsGenerate /\ IconNewer) =>
          /\ <<"write", AppleTouchIcon>> \in ran'
          /\ <<"write", Favicon>> \in ran']_vars

\* What the code does with a source icon newer than both outputs: the
\* outer node compares the apple touch icon, not the source, with the
\* favicon, and the icons are encoded exactly when the apple touch icon or
\* the executable is not older than the favicon.
C31_OuterTest ==
    [][(IsGenerate /\ IconNewer) =>
          (<<"write", Favicon>> \in ran'
             <=> (fs[AppleTouchIcon].mt >= fs[Favicon].mt \/ EXE_MODIFIED >= fs[Favicon].mt))]_vars

\* The source icon is newer than both outputs after a build that left
\* them as they were.
C31_Stale ==
    /\ gens >= 1 /\ dirty = {} /\ IconNewer
    /\ <<"node", Favicon>> \in ran
    /\ <<"node", AppleTouchIcon>> \notin ran

----------------------------------------------------------------------------
(* C32: a cached read whose file is deleted.                               *)

\* The step calls generate() of the Cache over the post template, whose
\* file was read with success by an earlier call and has since been deleted.
DeletedAfterRead ==
    /\ Generated(PostTemplate)
    /\ ~Exists(fs, PostTemplate)
    /\ cells[CellOf(PostTemplate)].some
    /\ cells[CellOf(PostTemplate)].out.ok

\* C32: when the file behind a cached TextFile is deleted after a generate()
\* that read it, the next generate() of the Cache yields the read error of
\* the path and not the content cached before.
C32_Invalidated ==
    [][DeletedAfterRead =>
          /\ ~cells'[CellOf(PostTemplate)].out.ok
          /\ cells'[CellOf(PostTemplate)].out.v = PostTemplate]_vars

\* What the code does: a deleted file has the time Never, which no stored
\* time is older than, so the Cache does not call its child and yields the
\* content it holds.
C32_Kept ==
    [][DeletedAfterRead =>
          /\ <<"miss", Label(CellOf(PostTemplate))>> \notin ran'
          /\ cells'[CellOf(PostTemplate)] = cells[CellOf(PostTemplate)]
          /\ ~CurrentAnswer(PostTemplate).ok]_vars

----------------------------------------------------------------------------
(* C33: a source saved while generate() is between reading it and writing  *)
(* its output.                                                             *)

\* The loop is blocked in recv(): no signal is waiting.
Blocked == mpc = "recv" /\ chan = << >>

\* The generate() of the loop has read post q and has decided to write its
\* page; the post was saved after that read and the page is not written yet.
Raced(q) ==
    /\ mpc = "writing"
    /\ PostSrc(q) \in dirty
    /\ \E i \in DOMAIN wr : wr[i].path = PostOut(q)

\* C33: a source saved while generate() runs, after it was read and before
\* its output is written, is not lost: a later generate() writes the
\* output from the new content.
C33_NotLost ==
    \A q \in {"a"} : Raced(q) ~> BuiltFrom(fs, PostOut(q), PostSrc(q))

\* The same as a property of the states: the loop never blocks in recv()
\* with a page built from a content of the post that a generate() has seen
\* replaced.
C33_NotLostBlocked ==
    \A q \in {"a"} :
        (Blocked /\ g >= 1 /\ PostSrc(q) \notin dirty) => BuiltFrom(fs, PostOut(q), PostSrc(q))

\* What the code does: the loop blocks with a stale page only when the page
\* is strictly newer than the post, which is what a write that follows the
\* save leaves as soon as the clock has advanced in between; the write node
\* then finds nothing to do.
C33_StaleOnlyNewer ==
    \A q \in {"a"} :
        (Blocked /\ g >= 1 /\ PostSrc(q) \notin dirty /\ ~BuiltFrom(fs, PostOut(q), PostSrc(q)))
            => /\ fs[PostOut(q)].mt > fs[PostSrc(q)].mt
               /\ <<"write", PostOut(q)>> \notin ran

----------------------------------------------------------------------------
(* C35: a source saved between the first generate() and the registration   *)
(* of the watcher.                                                         *)

\* The first generate() has read post q, the watcher is not registered
\* yet, and the post has been saved since that read.
SavedBeforeWatch(q) ==
    /\ mpc \in {"first", "setup"}
    /\ PostSrc(q) \in dirty

\* C35: a source saved after the first generate() read it and before the
\* watcher is registered is followed by a generate() that builds its output
\* from the new content, with no further event of the filesystem.
C35_NotMissed ==
    \A q \in {"a"} : SavedBeforeWatch(q) ~> BuiltFrom(fs, PostOut(q), PostSrc(q))

\* What the code does: every save made once the watcher is registered is
\* read by a generate() before the loop blocks; a save that no generate()
\* has read when the loop blocks is one made before any signal was sent,
\* and the loop has not called generate() at all.
C35_ReportedIsRead ==
    \A q \in {"a"} :
        (Blocked /\ PostSrc(q) \in dirty) => g = 0

----------------------------------------------------------------------------
(* C34: the rebuilds that a rebuild's own writes set off.                  *)

\* The step is the generate() of the loop making its comparisons and its
\* reads, and no source was saved since the previous generate() made its.
NothingNew ==
    /\ mpc = "running" /\ mpc' = "writing"
    /\ dirty \cap SourceFiles = {}

\* The outputs the generate() of this step has decided to write.
Decided == {wr'[i].path : i \in DOMAIN wr'}

\* C34 as stated: the writes of a rebuild signal the loop, and with no
\* change from outside the rebuilds that follow write nothing, so that the
\* loop ends up blocked in recv().
C34_Stated ==
    /\ [][NothingNew => Decided = {}]_vars
    /\ <>[]Blocked

\* C34, amended: the writes of a rebuild signal the loop; with no change
\* from outside, a rebuild that follows leaves alone every output that is
\* strictly newer than what its inputs report and than the executable, and
\* rewrites the others, those written in the same timestamp as the save of
\* a source or as the start of the process.  Once the clock has moved on no
\* output is of that kind, and the loop ends up blocked in recv().
C34_Quiesces ==
    /\ [][NothingNew =>
            \A n \in WriteNodes :
                IF StrictlyFresh(n) THEN n.path \notin Decided ELSE n.path \in Decided]_vars
    /\ [][(mpc = "writing" /\ wr # << >> /\ wr' # wr) => chan' # << >>]_vars
    /\ <>[]Blocked

\* A rebuild of the loop wrote an output, which signalled the loop; the
\* rebuild that followed found nothing new, wrote nothing, and the loop is
\* blocked in recv().
C34_Witness ==
    /\ Blocked
    /\ g >= 2
    /\ startDirty \cap SourceFiles = {}
    /\ Did("write", ran) = {}
    /\ \E o \in Outputs : fs[o].mt > started

----------------------------------------------------------------------------
(* A /watch request being set up (server.rs 99-150): respond_sse resolves  *)
(* every `path` parameter, awaiting fs_path's blocking task each time, and *)
(* subscribes to the broadcast channel after the last of them.  The        *)
(* watcher thread may call Server::update in between.                      *)

SetupClients == {"c1", "c3"}

\* The paths the stream of client c will watch.
Wanted(c) == respond_sse(<< <<"path", Asks(c)>> >>, {}).paths

\* The server has received GET /watch?path=.. of client c: respond_sse runs
\* and is resolving the paths.
WatchArrives(c) ==
    /\ clients[c].st = "none"
    /\ clients' = [clients EXCEPT ![c].st = "resolving", ![c].conn = TRUE]
    /\ UNCHANGED <<loopVars, watchGhost, graphVars, httpVars, libVars, seen, fsVars>>

\* The paths are resolved: self.inner.events.subscribe(), the task of the
\* stream is spawned.  The new receiver sees the events sent from now on.
Subscribed(c) ==
    LET r == respond_sse(<< <<"path", Asks(c)>> >>, {})
    IN /\ clients[c].st = "resolving"
       /\ r.status = 200
       /\ clients' = [clients EXCEPT ![c] =
              [st |-> "open", paths |-> r.paths, q |-> << >>, lagged |-> FALSE,
               conn |-> TRUE, reloads |-> 0, logged |-> FALSE]]
       /\ UNCHANGED <<loopVars, watchGhost, graphVars, httpVars, libVars, seen, fsVars>>

\* The watcher calls the callback.  The ghost `seen` notes, by client,
\* a change of a path it asked for that is broadcast after its request was
\* received.
SetupEvent(ev) ==
    /\ burst < MaxBroadcast
    /\ Callback(ev)
    /\ burst' = burst + 1
    /\ seen' = [c \in DOMAIN clients |->
                  IF /\ clients[c].st \in {"resolving", "open"}
                     /\ ev.kind \notin {"error", "access"}
                     /\ matches(Wanted(c), ev)
                  THEN [seen[c] EXCEPT !.named = TRUE]
                  ELSE seen[c]]
    /\ UNCHANGED <<mpc, expired, srv, passed, late, g, pending, dropped, graphVars, httpVars, libVars, fsVars>>

InitSetup ==
    /\ NoLib
    /\ InitGraph /\ NoRequest
    /\ mpc = "recv" /\ chan = << >> /\ expired = FALSE /\ srv = "listening"
    /\ clients = [c \in SetupClients |-> NoClient]
    /\ seen = [c \in SetupClients |-> [named |-> FALSE, nested |-> FALSE]]
    /\ burst = 0 /\ passed = FALSE /\ late = FALSE /\ g = 0
    /\ pending = FALSE /\ dropped = FALSE
    /\ evq = << >> /\ wr = << >> /\ wrote = {}

SetupNext ==
    \/ \E c \in SetupClients : WatchArrives(c)
    \/ \E c \in SetupClients : Subscribed(c)
    \/ \E ev \in ServeEvents : SetupEvent(ev)
    \/ \E c \in SetupClients : ClientRecv(c)

SetupSpec == InitSetup /\ [][SetupNext]_vars

\* The server's tasks run: a request being set up gets subscribed (it is
\* enabled as long as the request is resolving), a stream takes its events.
FairSetupSpec ==
    /\ SetupSpec
    /\ \A c \in SetupClients : []<>(clients[c].st # "resolving")
    /\ \A c \in SetupClients : WF_vars(ClientRecv(c))

----------------------------------------------------------------------------
(* C36: an event broadcast while a /watch request is being set up.         *)

\* C36: a change of a watched path that is broadcast after the server has
\* received the /watch request, be it before the handler has subscribed, is
\* delivered to that client as a reload event.
C36_Delivered ==
    \A c \in SetupClients : seen[c].named ~> (clients[c].reloads >= 1)

\* What the code does: a stream sends its reload for the events broadcast
\* once it has subscribed.  An open stream that has sent nothing and holds
\* no event of a path it watches was owed one only from before it
\* subscribed.
C36_AfterSubscribe ==
    [][\A c \in SetupClients :
          (clients[c].st = "open" /\ clients'[c].st = "open" /\ burst' = burst + 1
             /\ seen'[c].named /\ ~seen[c].named)
          => (clients'[c].lagged \/ \E i \in DOMAIN clients'[c].q : matches(clients'[c].paths, clients'[c].q[i]))]_vars

\* Client c has subscribed after a change of its path was broadcast, and
\* waits with nothing to receive.
C36_Missed ==
    \E c \in SetupClients :
        /\ seen[c].named
        /\ clients[c].st = "open"
        /\ clients[c].q = << >> /\ ~clients[c].lagged
        /\ clients[c].reloads = 0

----------------------------------------------------------------------------
(* A file request in its steps (server.rs 152-224): fs_path awaits a       *)
(* blocking task that looks the metadata up, respond_file awaits another   *)
(* that reads the file, and the main thread may rewrite the file in        *)
(* between.  A file is its bytes.                                          *)

Bodies == UNION {[1..n -> {"x"}] : n \in 0..MaxBody}

\* The outputs are built; the server listens.
InitTransfer ==
    /\ NoLib /\ NoRequest
    /\ now = 2
    /\ fs = [o \in Rewritten |-> [mt |-> 2, data |-> <<"x">>]]
    /\ cells = [c \in CacheIds |-> None]
    /\ ran = {} /\ dirty = {} /\ startDirty = {} /\ gens = 1 /\ changes = 0
    /\ faulty = {}
    /\ started = 2
    /\ mpc = "recv" /\ chan = << >> /\ expired = FALSE /\ srv = "listening"
    /\ clients = << >> /\ seen = << >>
    /\ burst = 0 /\ passed = FALSE /\ late = FALSE /\ g = 0
    /\ pending = FALSE /\ dropped = FALSE
    /\ evq = << >> /\ wr = << >> /\ wrote = {}

\* respond_file, first await: fs_path resolves the path and returns it with
\* the metadata of the file as it is now.
Lookup ==
    LET found == fs_path(req.path)
    IN /\ req.kind = "file"
       /\ IF found.some /\ found.v \in DOMAIN fs
          THEN /\ req' = [kind |-> "found", method |-> req.method, path |-> found.v,
                          metadata |-> [len |-> Len(fs[found.v].data)]]
               /\ resp' = NoResponse
          ELSE /\ req' = [kind |-> "none"]
               /\ resp' = not_found
       /\ UNCHANGED <<page404, libVars, graphVars, loopVars, clients, watchGhost, seen, fsVars>>

\* respond_file, the rest: the body by method (fs::read for GET), and the
\* response with content-length taken from the metadata.
ReadFile ==
    /\ req.kind = "found"
    /\ resp' = IF req.method = "HEAD"
               THEN [status |-> 200, method |-> "HEAD", paths |-> {req.path},
                     content_length |-> req.metadata.len, body |-> << >>]
               ELSE IF req.method = "GET"
               THEN [status |-> 200, method |-> "GET", paths |-> {req.path},
                     content_length |-> req.metadata.len, body |-> fs[req.path].data]
               ELSE [status |-> 405, paths |-> {}, body |-> "empty"]
    /\ req' = [kind |-> "none"]
    /\ UNCHANGED <<page404, libVars, graphVars, loopVars, clients, watchGhost, seen, fsVars>>

\* A rebuild writes output o anew (util::write_file).
Rewrite(o, bytes) ==
    /\ changes < MaxChanges
    /\ bytes # fs[o].data
    /\ fs' = [fs EXCEPT ![o] = [mt |-> now, data |-> bytes]]
    /\ changes' = changes + 1
    /\ UNCHANGED <<now, cells, ran, dirty, startDirty, gens, faulty, started>>
    /\ UNCHANGED <<loopVars, clients, watchGhost, httpVars, libVars, seen, fsVars>>

TransferNext ==
    \/ \E method \in {"GET", "HEAD"} : Arrive(method)
    \/ Lookup
    \/ ReadFile
    \/ \E o \in Rewritten : \E bytes \in Bodies : Rewrite(o, bytes)
    \/ Tick

TransferSpec == InitTransfer /\ [][TransferNext]_vars

----------------------------------------------------------------------------
(* C37: the content-length of a 200 response to a GET.                     *)

\* C37: every 200 response to a GET has a content-length equal to the
\* number of bytes of its body, also when the file was rewritten between
\* the lookup of the metadata and the read.
C37_LengthMatches ==
    (resp.status = 200 /\ resp.method = "GET") => resp.content_length = Len(resp.body)

\* What the code does: the content-length is the length the file had when
\* fs_path looked its metadata up, the body is the file as it is read.
C37_LengthAtLookup ==
    [][(req.kind = "found" /\ req'.kind = "none" /\ req.method = "GET") =>
          /\ resp'.content_length = req.metadata.len
          /\ resp'.body = fs[req.path].data]_vars

\* A GET was answered with a content-length that is not the length of the
\* body sent.
C37_Mismatch ==
    /\ resp.status = 200 /\ resp.method = "GET"
    /\ resp.content_length # Len(resp.body)

----------------------------------------------------------------------------
(* C38: a write node whose inner asset left no newer output is retried.    *)

----------------------------------------------------------------------------
(* The builder over a project whose posts are deleted or turned into       *)
(* drafts (config.drafts is off).                                          *)

\* The user deletes the source of post q: the directory changes with it.
DeletePost(q) ==
    /\ changes < MaxChanges
    /\ Exists(fs, PostSrc(q))
    /\ fs' = [fs EXCEPT ![PostSrc(q)] = Absent, ![SrcDir] = [@ EXCEPT !.mt = now]]
    /\ changes' = changes + 1
    /\ dirty' = dirty \cup {PostSrc(q), SrcDir}
    /\ UNCHANGED <<now, cells, ran, startDirty, gens, faulty, started, loopVars, clients, watchGhost, httpVars, libVars, seen, fsVars>>

\* The project with its sources in place, nothing built yet.
InitKeep == InitFault /\ faulty = {}

KeepNext ==
    \/ Generate
    \/ Tick
    \/ \E q \in Posts : \E d \in BOOLEAN : EditFile(PostSrc(q), d)
    \/ \E q \in Posts : DeletePost(q)
    \/ \E r \in RawFiles : RemoveFile(RawSrc(r))

KeepSpec == InitKeep /\ [][KeepNext]_vars

----------------------------------------------------------------------------
(* C39: generate() removes no file.                                        *)

\* The page of post q has no source any more, or its post is a draft.
Orphan(q) == ~Exists(fs, PostSrc(q)) \/ fs[PostSrc(q)].data.draft

\* C39: no generate() removes a file of the output directory: an output
\* that exists goes on existing, and a generate() changes an output only by
\* writing it.  The page of a post whose source was deleted or which became
\* a draft, and the copy of a deleted raw file, therefore stay on disk.
C39_NeverRemoves ==
    /\ [][\A o \in Outputs : Exists(fs, o) => Exists(fs', o)]_vars
    /\ [][IsGenerate =>
            \A o \in Outputs :
                IF <<"write", o>> \in ran'
                THEN fs'[o].mt = now /\ fs'[o].data # NoData
                ELSE fs'[o] = fs[o]]_vars
    /\ [][IsGenerate =>
            /\ \A q \in Posts :
                  (Exists(fs, PostOut(q)) /\ Orphan(q)) => Exists(fs', PostOut(q))
            /\ \A r \in RawFiles :
                  (Exists(fs, RawOut(r)) /\ ~Exists(fs, RawSrc(r))) => fs'[RawOut(r)] = fs[RawOut(r)]]_vars

\* The source of a post was deleted after its page was built; the
\* generate() that followed listed the directory again, has no node for
\* the page, and the page is on disk as it was.
C39_Witness ==
    /\ gens >= 2
    /\ PostSrc("a") \in startDirty
    /\ ~Exists(fs, PostSrc("a"))
    /\ Exists(fs, PostOut("a"))
    /\ <<"node", PostOut("a")>> \notin ran
    /\ <<"node", PostOut("b")>> \in ran

\* A post became a draft after its page was built; the generate() that
\* followed read it, wrote nothing for it, and the page is on disk.
C39_Draft ==
    /\ gens >= 2
    /\ fs[PostSrc("a")].data.draft
    /\ <<"read", PostSrc("a")>> \in ran
    /\ <<"write", PostOut("a")>> \notin ran
    /\ Exists(fs, PostOut("a"))

============================================================================
